---- MODULE Spec2Model ----
(***************************************************************************)
(* A model of the font_decoder crate: the byte reader (decoder.rs), the    *)
(* cmap format 4 lookup (cmap.rs), loca ranges (loca.rs), the simple glyph *)
(* point iterator and the composite glyph components (glyf.rs), the morx   *)
(* state table regions and the morx chain and subtable decoding (morx.rs), *)
(* LazyArray::binary_search_by (decoder.rs), the table directory lookup    *)
(* (table.rs), the cmap format 4 subtable decoding (cmap.rs), make_rank,   *)
(* the new state index of an entry, the loop over the state rows and the   *)
(* parsers of the subtable payloads and lookup tables (morx.rs), the GSUB  *)
(* Lookup (gsub.rs), the iterators of LazyArray and UnsizedLazyArray       *)
(* (decoder.rs) and the font collection (table.rs).                        *)
(*                                                                         *)
(* Each component has its own variables and its own specification          *)
(* (SpecStream, SpecCmap, ...); the variables of the components a          *)
(* specification does not exercise stay at their idle values.  usize is    *)
(* taken to be 64 bits wide and all modelled lengths stay far below it, so *)
(* usize additions and multiplications never overflow, except in the table *)
(* directory and collection lookups, where the width of usize is an input. *)
(* The subtractions that can go below zero are modelled with both outcomes *)
(* of the build profile (overflow checks on: panic, off: wrap around).     *)
(***************************************************************************)
EXTENDS Integers, Sequences, FiniteSets, TLC

VARIABLES
    s_data,      \* Stream.data: the byte region
    s_offset,    \* Stream.offset: the cursor
    s_call       \* the last Stream call: operation, cursor before it, result

streamVars == <<s_data, s_offset, s_call>>

VARIABLES
    c_table,            \* the parsed CmapSubtableFormat4 (its five arrays)
    c_overflow_checks,  \* the build profile: are integer overflows checked
    c_call              \* the last cmap call: operation, argument, result

cmapVars == <<c_table, c_overflow_checks, c_call>>

VARIABLES
    l_table,     \* the LocaTable: its variant and its numGlyphs + 1 offsets
    l_call       \* the last loca call: operation, glyph ID, result

locaVars == <<l_table, l_call>>

VARIABLES
    g_data,      \* the bytes given to SimpleGlyphTable::parse
    g_table,     \* the parsed SimpleGlyphTable, or None
    g_iter,      \* the GlyphPointsIter being iterated (a clone of the table's)
    g_points,    \* the points this clone has yielded so far
    g_nones,     \* how many calls of next on this clone returned None
    g_clones,    \* how many clones have been taken
    g_ret        \* the result of the last call of next

glyfVars == <<g_data, g_table, g_iter, g_points, g_nones, g_clones, g_ret>>

VARIABLES
    m_input,     \* a morx state-table payload: subtable type, region offsets, length
    m_ret        \* the regions parse derived for it: Some(regions), None or Panic

morxVars == <<m_input, m_ret>>

VARIABLES
    k_input,       \* how the glyph bytes were built: the components meant, bytes cut off
    k_data,        \* the bytes given to Glyph::parse
    k_glyph,       \* the parsed Glyph's subtable (Simple or Composite), or None
    k_offset,      \* CompositeGlyphIter.stream.offset
    k_components,  \* the components CompositeGlyphIter has yielded so far
    k_nones,       \* how many calls of next returned None
    k_ret,         \* the result of the last call of next
    k_points       \* the result of get_glyph_points_iter: Fresh, Some or Panic

compositeVars == <<k_input, k_data, k_glyph, k_offset, k_components, k_nones, k_ret, k_points>>

VARIABLES
    b_buffer,    \* LazyArray<u16>.buffer: the bytes under the array
    b_cmp,       \* the comparator given to binary_search_by: element |-> Ordering
    b_tag,       \* the tag the comparator compares with, or -1 for an arbitrary one
    b_call       \* the last call: Fresh, or the result and the indices given to get

searchVars == <<b_buffer, b_cmp, b_tag, b_call>>

VARIABLES
    t_file,        \* Table.data: all the bytes of the font file
    t_table,       \* Table::new(t_file): Some(table directory), None or Panic
    t_usize_bits,  \* the width of usize on the build target: 32 or 64
    t_call         \* the last call on the table: operation, tag, result

tableVars == <<t_file, t_table, t_usize_bits, t_call>>

VARIABLES
    h_data,             \* the bytes given to MorxTable::parse
    h_overflow_checks,  \* the build profile: are integer overflows checked
    h_outcome,          \* what the parser of a subtable's own payload returns
    h_pc,               \* where MorxTable::parse is: "table", "chain", "features",
                        \* "subtables" or "done"
    h_offset,           \* the cursor of the stream over the whole table
    h_chains_left,      \* iterations left of the loop over the chains
    h_chain,            \* the chain being parsed: its start, chainLength, stream, loops
    h_ended,            \* the chains parsed so far: start, chainLength, cursor after
    h_sub,              \* the last call of MorxSubtable::parse: cursor before, header, result
    h_ret               \* the result of MorxTable::parse: Fresh, Some, None or Panic

chainVars == <<h_data, h_overflow_checks, h_outcome, h_pc, h_offset, h_chains_left,
               h_chain, h_ended, h_sub, h_ret>>

\* ---- cmap format 4 subtable decoding (src/src/cmap.rs) ----
VARIABLES
    f_data,     \* the bytes handed to CmapSubtableFormat4::parse
    f_ret       \* Fresh before the call, then its outcome

format4Vars == <<f_data, f_ret>>

\* ---- morx.rs: make_rank ----
VARIABLES
    r_values,   \* the values handed to make_rank
    r_ret       \* Fresh before the call, then the ranks

rankVars == <<r_values, r_ret>>

\* ---- gsub.rs: Lookup::parse ----
VARIABLES
    u_data,     \* the bytes handed to Lookup::parse
    u_ret       \* Fresh before the call, then its outcome

gsubVars == <<u_data, u_ret>>

\* ---- decoder.rs: LazyArrayIter and UnsizedLazyArrayIter ----
VARIABLES
    a_array,    \* the array iterated: its kind, element type, buffer and data_size
    a_index,    \* the iterator's index
    a_yield     \* the results of the calls of next so far, in order

iterVars == <<a_array, a_index, a_yield>>

\* ---- morx.rs: RearrangementEntry::get_new_state_index ----
VARIABLES
    e_entry,    \* the RearrangementEntry: newState and flags
    e_classes,  \* number_of_classes, the subtable's nClasses
    e_ret       \* Fresh before the call, then Some(state index) or Panic

entryVars == <<e_entry, e_classes, e_ret>>

\* ---- morx.rs: the state-array loop of Rearrangement::parse and Contextual::parse ----
VARIABLES
    w_kind,     \* the subtable parsed: "Rearrangement" or "Contextual"
    w_region,   \* the length in bytes of the state array's region
    w_classes,  \* stx_header.nClasses
    w_offset,   \* state_stream.offset
    w_rows,     \* state_array.len()
    w_ret       \* Fresh while the loop runs, then "Left" or Panic

rowsVars == <<w_kind, w_region, w_classes, w_offset, w_rows, w_ret>>

\* ---- morx.rs: the parsers of a subtable's payload ----
VARIABLES
    p_kind,     \* the parser the bytes are given to
    p_data,     \* the bytes: a subtable's payload (what follows its 12-byte
                \* header), or a lookup table on its own
    p_ret       \* Fresh before the call, then Some(parsed), None, Panic or Diverges

payloadVars == <<p_kind, p_data, p_ret>>

\* ---- table.rs: Collection ----
VARIABLES
    o_file,        \* Collection.data: all the bytes of the collection file
    o_collection,  \* Collection::new(o_file): Some(TTC header) or None
    o_usize_bits,  \* the width of usize on the build target: 32 or 64
    o_index,       \* the index given to Collection::get
    o_table,       \* Fresh, then the result of get: Some(Table), None or Panic
    o_call         \* Fresh, then the last get_table_data on that Table

collectionVars == <<o_file, o_collection, o_usize_bits, o_index, o_table, o_call>>

vars == <<streamVars, cmapVars, locaVars, glyfVars, morxVars, compositeVars, searchVars, tableVars, chainVars, format4Vars, rankVars, gsubVars, iterVars, entryVars, rowsVars, payloadVars, collectionVars>>

\* what the actions of one component leave alone
streamOthers == <<cmapVars, locaVars, glyfVars, morxVars, compositeVars, searchVars, tableVars, chainVars, format4Vars, rankVars, gsubVars, iterVars, entryVars, rowsVars, payloadVars, collectionVars>>
cmapOthers == <<streamVars, locaVars, glyfVars, morxVars, compositeVars, searchVars, tableVars, chainVars, format4Vars, rankVars, gsubVars, iterVars, entryVars, rowsVars, payloadVars, collectionVars>>
locaOthers == <<streamVars, cmapVars, glyfVars, morxVars, compositeVars, searchVars, tableVars, chainVars, format4Vars, rankVars, gsubVars, iterVars, entryVars, rowsVars, payloadVars, collectionVars>>
glyfOthers == <<streamVars, cmapVars, locaVars, morxVars, compositeVars, searchVars, tableVars, chainVars, format4Vars, rankVars, gsubVars, iterVars, entryVars, rowsVars, payloadVars, collectionVars>>
morxOthers == <<streamVars, cmapVars, locaVars, glyfVars, compositeVars, searchVars, tableVars, chainVars, format4Vars, rankVars, gsubVars, iterVars, entryVars, rowsVars, payloadVars, collectionVars>>
compositeOthers == <<streamVars, cmapVars, locaVars, glyfVars, morxVars, searchVars, tableVars, chainVars, format4Vars, rankVars, gsubVars, iterVars, entryVars, rowsVars, payloadVars, collectionVars>>
searchOthers == <<streamVars, cmapVars, locaVars, glyfVars, morxVars, compositeVars, tableVars, chainVars, format4Vars, rankVars, gsubVars, iterVars, entryVars, rowsVars, payloadVars, collectionVars>>
tableOthers == <<streamVars, cmapVars, locaVars, glyfVars, morxVars, compositeVars, searchVars, chainVars, format4Vars, rankVars, gsubVars, iterVars, entryVars, rowsVars, payloadVars, collectionVars>>
chainOthers == <<streamVars, cmapVars, locaVars, glyfVars, morxVars, compositeVars, searchVars, tableVars, format4Vars, rankVars, gsubVars, iterVars, entryVars, rowsVars, payloadVars, collectionVars>>
format4Others == <<streamVars, cmapVars, locaVars, glyfVars, morxVars, compositeVars, searchVars, tableVars, chainVars, rankVars, gsubVars, iterVars, entryVars, rowsVars, payloadVars, collectionVars>>
rankOthers == <<streamVars, cmapVars, locaVars, glyfVars, morxVars, compositeVars, searchVars, tableVars, chainVars, format4Vars, gsubVars, iterVars, entryVars, rowsVars, payloadVars, collectionVars>>
gsubOthers == <<streamVars, cmapVars, locaVars, glyfVars, morxVars, compositeVars, searchVars, tableVars, chainVars, format4Vars, rankVars, iterVars, entryVars, rowsVars, payloadVars, collectionVars>>
iterOthers == <<streamVars, cmapVars, locaVars, glyfVars, morxVars, compositeVars, searchVars, tableVars, chainVars, format4Vars, rankVars, gsubVars, entryVars, rowsVars, payloadVars, collectionVars>>
entryOthers == <<streamVars, cmapVars, locaVars, glyfVars, morxVars, compositeVars, searchVars, tableVars, chainVars, format4Vars, rankVars, gsubVars, iterVars, rowsVars, payloadVars, collectionVars>>
rowsOthers == <<streamVars, cmapVars, locaVars, glyfVars, morxVars, compositeVars, searchVars, tableVars, chainVars, format4Vars, rankVars, gsubVars, iterVars, entryVars, payloadVars, collectionVars>>
payloadOthers == <<streamVars, cmapVars, locaVars, glyfVars, morxVars, compositeVars, searchVars, tableVars, chainVars, format4Vars, rankVars, gsubVars, iterVars, entryVars, rowsVars, collectionVars>>
collectionOthers == <<streamVars, cmapVars, locaVars, glyfVars, morxVars, compositeVars, searchVars, tableVars, chainVars, format4Vars, rankVars, gsubVars, iterVars, entryVars, rowsVars, payloadVars>>

----------------------------------------------------------------------------
(* Common values *)

None == [tag |-> "None"]
Some(v) == [tag |-> "Some", val |-> v]
Panic == [tag |-> "Panic"]
\* no call has been made yet
Fresh == [tag |-> "Fresh"]

\* s[from+1 .. to] for 0 <= from <= to <= Len(s): the slice data[from..to]
Slice(s, from, to) == [k \in 1..(to - from) |-> s[from + k]]

\* <[u8]>::get(start..end)
slice_get(s, start, end) ==
    IF start <= end /\ end <= Len(s) THEN Some(Slice(s, start, end)) ELSE None

\* All sequences over S of length 0..n
SeqsUpTo(S, n) == UNION {[1..k -> S] : k \in 0..n}

I16Modulus == 65536
I16Max == 32767

\* u16::from_be_bytes
U16FromBe(b) == b[1] * 256 + b[2]

\* i16::from_be_bytes
I16FromBe(b) == IF U16FromBe(b) > I16Max THEN U16FromBe(b) - I16Modulus ELSE U16FromBe(b)

\* u32::from_be_bytes: a u32 is kept as the pair <<high 16 bits, low 16 bits>>
U32FromBe(b) == <<b[1] * 256 + b[2], b[3] * 256 + b[4]>>

\* i32::from_be_bytes: the pair <<high 16 bits as i16, low 16 bits>>
I32FromBe(b) == <<I16FromBe(SubSeq(b, 1, 2)), U16FromBe(SubSeq(b, 3, 4))>>

\* i64::from_be_bytes: four 16-bit digits, the highest as i16
I64FromBe(b) ==
    <<I16FromBe(SubSeq(b, 1, 2)), U16FromBe(SubSeq(b, 3, 4)),
      U16FromBe(SubSeq(b, 5, 6)), U16FromBe(SubSeq(b, 7, 8))>>

----------------------------------------------------------------------------
(* decoder.rs: Stream *)

MaxStreamLen == 3     \* longest byte region of a Stream
MaxArg == 4           \* largest len / count / offset argument of a call
MaxOffset == 8        \* reads are followed from cursors up to this value

StreamBytes == {0, 1, 255}

\* FromData::SIZE of the primitive types
TypeSize(T) ==
    CASE T = "u8" -> 1
      [] T = "u16" -> 2
      [] T = "u32" -> 4
      [] T = "i16" -> 2
      [] T = "i32" -> 4
      [] T = "i64" -> 64
      [] T = "Tag" -> 4
      [] T = "Fixed" -> 4
      [] T = "LONGDATETIME" -> 8
      [] T = "Version16Dot16" -> 4

StreamTypes == {"u8", "u16", "u32", "i16", "i32", "i64", "Tag", "Fixed",
                "LONGDATETIME", "Version16Dot16"}

\* the integer T::parse converts the bytes to, and the length of the byte
\* array its from_be_bytes takes
IntOf(T) ==
    CASE T = "Tag" -> "u32"
      [] T = "Fixed" -> "i32"
      [] T = "LONGDATETIME" -> "i64"
      [] T = "Version16Dot16" -> "u32"
      [] OTHER -> T

IntBytes(int) ==
    CASE int \in {"u8"} -> 1
      [] int \in {"u16", "i16"} -> 2
      [] int \in {"u32", "i32"} -> 4
      [] int = "i64" -> 8

\* <T as FromData>::parse: data.try_into().map(from_be_bytes).ok(), which is
\* None unless the slice is as long as the integer
FromData_parse(T, data) ==
    LET int == IntOf(T)
    IN  IF Len(data) # IntBytes(int) THEN None
        ELSE Some(CASE int = "u8" -> data[1]
                    [] int = "u16" -> U16FromBe(data)
                    [] int = "i16" -> I16FromBe(data)
                    [] int = "u32" -> U32FromBe(data)
                    [] int = "i32" -> I32FromBe(data)
                    [] int = "i64" -> I64FromBe(data))

\* Stream::read_bytes on (data, offset): the result and the new cursor
read_bytes(data, offset, len) ==
    [ret |-> slice_get(data, offset, offset + len), offset |-> offset + len]

\* Stream::set_len on data: the result and the new region
set_len(data, len) ==
    LET r == slice_get(data, 0, len)
    IN  IF r = None THEN [ret |-> None, data |-> data]
        ELSE [ret |-> Some(<<>>), data |-> r.val]

\* Stream::read::<T> on (data, offset): read_bytes(T::SIZE).and_then(T::parse)
read(T, data, offset) ==
    LET r == read_bytes(data, offset, TypeSize(T))
    IN  [ret |-> IF r.ret = None THEN None ELSE FromData_parse(T, r.ret.val),
         offset |-> r.offset]

\* Stream::read_array::<T> on (data, offset)
read_array(T, data, offset, count) == read_bytes(data, offset, count * TypeSize(T))

\* a stream of n bytes whose k-th byte is 256 - k: no two bytes alike, and
\* the first byte of every value has its sign bit set
LongStream(n) == [k \in 1..n |-> 256 - k]

\* the lengths of the long streams: i64 takes 8 bytes on the wire, and
\* <i64 as FromData>::SIZE is 64
LongStreamLens == {8, 9, 64}

StreamInit ==
    /\ s_data \in SeqsUpTo(StreamBytes, MaxStreamLen)
                   \cup {LongStream(n) : n \in LongStreamLens}
    /\ s_offset = 0
    /\ s_call = [op |-> "new", arg |-> <<>>, before |-> 0, ret |-> None]

StreamIdle ==
    /\ s_data = <<>>
    /\ s_offset = 0
    /\ s_call = [op |-> "idle", arg |-> <<>>, before |-> 0, ret |-> None]

StreamActive == s_call.op # "idle"

StreamDo(op, arg, r) ==
    /\ s_offset <= MaxOffset
    /\ s_offset' = r.offset
    /\ s_call' = [op |-> op, arg |-> arg, before |-> s_offset, ret |-> r.ret]
    /\ UNCHANGED <<s_data, streamOthers>>

ReadBytes ==
    /\ StreamActive
    /\ \E len \in 0..MaxArg :
         StreamDo("read_bytes", <<len>>, read_bytes(s_data, s_offset, len))

Read ==
    /\ StreamActive
    /\ \E T \in StreamTypes : StreamDo("read", <<T>>, read(T, s_data, s_offset))

ReadArray ==
    /\ StreamActive
    /\ \E T \in StreamTypes, count \in 0..MaxArg :
         StreamDo("read_array", <<T, count>>, read_array(T, s_data, s_offset, count))

ReadUnsizedArray ==
    /\ StreamActive
    /\ \E data_count \in 0..MaxArg, data_size \in 1..MaxArg :
         StreamDo("read_unsized_array", <<data_count, data_size>>,
                  read_bytes(s_data, s_offset, data_count * data_size))

SetOffset ==
    /\ StreamActive
    /\ \E offset \in 0..MaxArg :
         /\ s_offset' = offset
         /\ s_call' = [op |-> "set_offset", arg |-> <<offset>>, before |-> s_offset,
                       ret |-> Some(<<>>)]
         /\ UNCHANGED <<s_data, streamOthers>>

SetLen ==
    /\ StreamActive
    /\ \E len \in 0..MaxArg :
         LET r == set_len(s_data, len)
         IN  /\ s_data' = r.data
             /\ s_call' = [op |-> "set_len", arg |-> <<len>>, before |-> s_offset,
                           ret |-> r.ret]
             /\ UNCHANGED <<s_offset, streamOthers>>

StreamNext ==
    \/ ReadBytes
    \/ Read
    \/ ReadArray
    \/ ReadUnsizedArray
    \/ SetOffset
    \/ SetLen

StreamReads == {"read_bytes", "read", "read_array", "read_unsized_array"}

\* C1: after any sequence of Stream operations the cursor is at most the
\* region length, and a read that fails leaves the cursor where it was
\* before the call.
StreamCursorContract ==
    StreamActive =>
        /\ s_offset <= Len(s_data)
        /\ (s_call.op \in StreamReads /\ s_call.ret = None => s_offset = s_call.before)

\* the on-wire size of each primitive type
WireSize(T) ==
    CASE T = "u8" -> 1
      [] T \in {"u16", "i16"} -> 2
      [] T \in {"u32", "i32", "Tag", "Fixed", "Version16Dot16"} -> 4
      [] T \in {"i64", "LONGDATETIME"} -> 8

SignedTypes == {"i16", "i32", "i64", "Fixed", "LONGDATETIME"}

\* the big-endian value of bytes as a T: a number for one or two bytes, else
\* its base-65536 digits from the highest down; for a signed T the highest
\* digit counts as negative from 0x8000 on
BigEndianValue(T, bytes) ==
    LET digits == [k \in 1..(Len(bytes) \div 2) |->
                      256 * bytes[2 * k - 1] + bytes[2 * k]
                      - (IF k = 1 /\ T \in SignedTypes /\ bytes[1] >= 128
                         THEN 65536 ELSE 0)]
    IN  IF Len(bytes) = 1 THEN bytes[1]
        ELSE IF Len(bytes) = 2 THEN digits[1]
        ELSE digits

\* C16: read::<T> on a stream with at least w(T) bytes left succeeds, returns
\* the big-endian value of the next w(T) bytes and advances the cursor by
\* w(T); read_array::<T>(count) with count * w(T) bytes left advances it by
\* count * w(T).
StreamReadPrimitive ==
    /\ (s_call.op = "read" /\ s_call.before + WireSize(s_call.arg[1]) <= Len(s_data)) =>
           /\ s_call.ret # None
           /\ s_call.ret.val =
                  BigEndianValue(s_call.arg[1],
                      Slice(s_data, s_call.before,
                            s_call.before + WireSize(s_call.arg[1])))
           /\ s_offset = s_call.before + WireSize(s_call.arg[1])
    /\ (/\ s_call.op = "read_array"
        /\ s_call.before + s_call.arg[2] * WireSize(s_call.arg[1]) <= Len(s_data)) =>
           /\ s_call.ret # None
           /\ s_offset = s_call.before + s_call.arg[2] * WireSize(s_call.arg[1])

----------------------------------------------------------------------------
(* decoder.rs: LazyArray *)

\* LazyArray::get over the decoded elements; an index that wrapped around
\* below zero is a huge usize, which is never below len
lazy_get(array, index) ==
    IF 0 <= index /\ index < Len(array) THEN Some(array[index + 1]) ELSE None

----------------------------------------------------------------------------
(* cmap.rs: CmapSubtableFormat4 *)

MaxSegs == 2          \* most segments of a subtable
MaxSpan == 2          \* largest endCode - startCode of a segment
MaxGlyphIds == 2      \* longest glyphIdArray

U16Modulus == 65536
SurrogateFirst == 55296
SurrogateLast == 57343

CodeVals == {65, 66, 67, 55295, 55296, 65534, 65535}
DeltaVals == {-64, 1}
RangeOffsetVals == {0, 2, 4}
GlyphVals == {7, 9}
\* code points a caller can pass as a char (no surrogates), one above 0xFFFF
QueryChars == {64, 65, 66, 67, 55295, 65534, 65535, 65536}

CmapSegments ==
    {[startCode |-> a, endCode |-> b, idDelta |-> d, idRangeOffset |-> ro] :
        a \in CodeVals, b \in CodeVals, d \in DeltaVals, ro \in RangeOffsetVals}

\* the subtables CmapSubtableFormat4::parse returns: segCount >= 1 segments,
\* the last endCode 0xFFFF, and whatever follows as glyphIdArray
CmapTables ==
    {[segs |-> s, glyphIdArray |-> g] :
        s \in {q \in UNION {[1..n -> CmapSegments] : n \in 1..MaxSegs} :
                 /\ q[Len(q)].endCode = U16Modulus - 1
                 /\ \A k \in 1..Len(q) :
                      /\ q[k].startCode <= q[k].endCode
                      /\ q[k].endCode - q[k].startCode <= MaxSpan},
        g \in SeqsUpTo(GlyphVals, MaxGlyphIds)}

segCount(t) == Len(t.segs)
endCode(t, i) == t.segs[i + 1].endCode
startCode(t, i) == t.segs[i + 1].startCode
idDelta(t, i) == t.segs[i + 1].idDelta
idRangeOffsets(t, i) == t.segs[i + 1].idRangeOffset

\* id_delta as u16
I16AsU16(d) == IF d < 0 THEN d + U16Modulus ELSE d

\* u16::wrapping_add
wrapping_add(a, b) == (a + b) % U16Modulus

\* the loop of get_glyph_id: the segment index it settles on, or -1 when the
\* loop runs out (end <= start)
RECURSIVE find_segment(_, _, _, _)
find_segment(t, code_point, start, end) ==
    IF ~(end > start) THEN -1
    ELSE LET mid == (start + end) \div 2
         IN  IF endCode(t, mid) < code_point
                 THEN find_segment(t, code_point, mid + 1, end)
             ELSE IF code_point < startCode(t, mid)
                 THEN find_segment(t, code_point, start, mid)
             ELSE mid

\* gid_array_index_from_id_range_offset - gid_array_start_from_id_range_offset
gid_array_index(t, i) == (idRangeOffsets(t, i) \div 2) - (segCount(t) - i)

\* CmapSubtableFormat4::get_glyph_id; code_point is the char as u32
get_glyph_id(t, code_point, overflow_checks) ==
    IF code_point > U16Modulus - 1 THEN None
    ELSE LET mid == find_segment(t, code_point, 0, segCount(t))
         IN  IF mid = -1 THEN Some(0)
             ELSE IF idRangeOffsets(t, mid) = 0
                 THEN Some(wrapping_add(code_point, I16AsU16(idDelta(t, mid))))
             ELSE IF gid_array_index(t, mid) < 0 /\ overflow_checks THEN Panic
             ELSE lazy_get(t.glyphIdArray,
                           gid_array_index(t, mid) + (code_point - startCode(t, mid)))

\* one pass of the inner loop of get_code_point_glyph_id_map: the glyph ID
\* inserted for code_point of segment i, or Panic
map_glyph_id(t, i, code_point, overflow_checks) ==
    LET glyph_id ==
            IF idRangeOffsets(t, i) = 0
                THEN Some(wrapping_add(code_point, I16AsU16(idDelta(t, i))))
            ELSE IF gid_array_index(t, i) < 0 /\ overflow_checks THEN Panic
            ELSE LET g == lazy_get(t.glyphIdArray,
                                   gid_array_index(t, i) + (code_point - startCode(t, i)))
                 IN  IF g = None THEN Panic ELSE g
    IN  IF glyph_id = Panic THEN Panic
        ELSE IF code_point >= SurrogateFirst /\ code_point <= SurrogateLast THEN Panic
        ELSE glyph_id

\* HashMap::insert
map_insert(map, key, value) ==
    [k \in DOMAIN map \cup {key} |-> IF k = key THEN value ELSE map[k]]

\* the two nested loops of get_code_point_glyph_id_map from (i, code_point) on
RECURSIVE map_loop(_, _, _, _, _)
map_loop(t, i, code_point, map, overflow_checks) ==
    IF i >= segCount(t) THEN Some(map)
    ELSE IF code_point > endCode(t, i)
        THEN IF i + 1 < segCount(t)
                 THEN map_loop(t, i + 1, startCode(t, i + 1), map, overflow_checks)
                 ELSE Some(map)
    ELSE LET g == map_glyph_id(t, i, code_point, overflow_checks)
         IN  IF g = Panic THEN Panic
             ELSE map_loop(t, i, code_point + 1,
                           map_insert(map, code_point, g.val), overflow_checks)

\* CmapSubtableFormat4::get_code_point_glyph_id_map
get_code_point_glyph_id_map(t, overflow_checks) ==
    map_loop(t, 0, startCode(t, 0), <<>>, overflow_checks)

CmapInit ==
    /\ c_table \in CmapTables
    /\ c_overflow_checks \in BOOLEAN
    /\ c_call = [op |-> "parse", arg |-> 0, ret |-> None]

CmapIdle ==
    /\ c_table = [segs |-> <<>>, glyphIdArray |-> <<>>]
    /\ c_overflow_checks = FALSE
    /\ c_call = [op |-> "idle", arg |-> 0, ret |-> None]

\* a panic ends the process: nothing is called after it
CmapActive == c_call.op # "idle" /\ c_call.ret # Panic

GetGlyphId ==
    /\ CmapActive
    /\ \E code_point \in QueryChars :
         c_call' = [op |-> "get_glyph_id", arg |-> code_point,
                    ret |-> get_glyph_id(c_table, code_point, c_overflow_checks)]
    /\ UNCHANGED <<c_table, c_overflow_checks, cmapOthers>>

GetCodePointGlyphIdMap ==
    /\ CmapActive
    /\ c_call' = [op |-> "get_code_point_glyph_id_map", arg |-> 0,
                  ret |-> get_code_point_glyph_id_map(c_table, c_overflow_checks)]
    /\ UNCHANGED <<c_table, c_overflow_checks, cmapOthers>>

CmapNext ==
    \/ GetGlyphId
    \/ GetCodePointGlyphIdMap

Ascending(t) == \A i \in 0..(segCount(t) - 2) : endCode(t, i) <= endCode(t, i + 1)

\* the smallest segment index whose endCode is at least c
SmallestSegment(t, c) ==
    CHOOSE i \in 0..(segCount(t) - 1) :
        /\ endCode(t, i) >= c
        /\ \A j \in 0..(i - 1) : endCode(t, j) < c

\* C2: for c <= 0xFFFF and an ascending endCode array ending in 0xFFFF
\* (segments may overlap), with i the smallest index with endCode[i] >= c,
\* get_glyph_id(c) is glyph 0 if startCode[i] > c, and (c + idDelta[i]) mod
\* 2^16 if idRangeOffsets[i] = 0.
CmapLookupSmallestSegment ==
    (/\ c_call.op = "get_glyph_id"
     /\ c_call.arg <= U16Modulus - 1
     /\ Ascending(c_table)) =>
        LET c == c_call.arg
            i == SmallestSegment(c_table, c)
        IN  /\ startCode(c_table, i) > c => c_call.ret = Some(0)
            /\ (startCode(c_table, i) <= c /\ idRangeOffsets(c_table, i) = 0) =>
                   c_call.ret = Some((c + idDelta(c_table, i)) % U16Modulus)

\* C3: for c inside the segment i that the lookup selects, with
\* idRangeOffsets[i] # 0, get_glyph_id(c) never panics or underflows: it
\* returns glyphIdArray[gidIndex] when 0 <= gidIndex < |glyphIdArray| and
\* ro/2 >= segCount - i, and None when ro/2 < segCount - i or gidIndex is
\* past the array.
CmapRangeOffsetTotal ==
    (/\ c_call.op = "get_glyph_id"
     /\ c_call.arg <= U16Modulus - 1
     /\ find_segment(c_table, c_call.arg, 0, segCount(c_table)) # -1
     /\ idRangeOffsets(c_table, find_segment(c_table, c_call.arg, 0, segCount(c_table))) # 0) =>
        LET c == c_call.arg
            i == find_segment(c_table, c, 0, segCount(c_table))
            ro == idRangeOffsets(c_table, i)
            gidIndex == (ro \div 2) - (segCount(c_table) - i) + (c - startCode(c_table, i))
        IN  /\ c_call.ret # Panic
            /\ IF (ro \div 2) < segCount(c_table) - i \/ gidIndex >= Len(c_table.glyphIdArray)
                   THEN c_call.ret = None
                   ELSE c_call.ret = Some(c_table.glyphIdArray[gidIndex + 1])

\* C4: for every parsed subtable the enumeration completes and maps every
\* code point of every segment to the glyph ID get_glyph_id returns for it.
CmapEnumerationAgrees ==
    c_call.op = "get_code_point_glyph_id_map" =>
        /\ c_call.ret # Panic
        /\ \A i \in 0..(segCount(c_table) - 1) :
             \A c \in startCode(c_table, i)..endCode(c_table, i) :
                /\ c \in DOMAIN c_call.ret.val
                /\ Some(c_call.ret.val[c]) = get_glyph_id(c_table, c, c_overflow_checks)

----------------------------------------------------------------------------
(* loca.rs: LocaTable *)

MaxGlyphs == 3        \* most glyphs of a loca table

LocaVals == {0, 16, 48, 65535}

LocaTables ==
    {[variant |-> v, offsets |-> o] :
        v \in {"Short", "Long"},
        o \in UNION {[1..(n + 1) -> LocaVals] : n \in 0..MaxGlyphs}}

\* LocaTable::len
loca_len(table) == Len(table.offsets)

\* get_glyf_range with the emptiness test start > end
get_glyf_range_keeps_empty(table, glyph_id) ==
    LET next_glyph_id == glyph_id + 1
    IN  IF next_glyph_id >= loca_len(table) THEN None
        ELSE LET start == table.offsets[glyph_id + 1] * 2
                 end == table.offsets[next_glyph_id + 1] * 2
             IN  IF start > end THEN None ELSE Some([start |-> start, end |-> end])

\* LocaTable::get_glyf_range: both match arms double the stored offsets
get_glyf_range(table, glyph_id) ==
    LET next_glyph_id == glyph_id + 1
    IN  IF next_glyph_id >= loca_len(table) THEN None
        ELSE LET range ==
                     CASE table.variant = "Short" ->
                              [start |-> table.offsets[glyph_id + 1] * 2,
                               end |-> table.offsets[next_glyph_id + 1] * 2]
                       [] table.variant = "Long" ->
                              [start |-> table.offsets[glyph_id + 1] * 2,
                               end |-> table.offsets[next_glyph_id + 1] * 2]
             IN  IF range.start >= range.end THEN None ELSE Some(range)

LocaInit ==
    /\ l_table \in LocaTables
    /\ l_call = [op |-> "parse", arg |-> 0, ret |-> None]

LocaIdle ==
    /\ l_table = [variant |-> "Short", offsets |-> <<>>]
    /\ l_call = [op |-> "idle", arg |-> 0, ret |-> None]

LocaActive == l_call.op # "idle"

GetGlyfRange ==
    /\ LocaActive
    /\ \E glyph_id \in 0..(MaxGlyphs + 1) :
         l_call' = [op |-> "get_glyf_range", arg |-> glyph_id,
                    ret |-> get_glyf_range(l_table, glyph_id)]
    /\ UNCHANGED <<l_table, locaOthers>>

LocaNext == GetGlyfRange

numGlyphs(table) == Len(table.offsets) - 1

\* C5: get_glyf_range(id) returns [loca[id], loca[id+1]), the stored offsets
\* doubled for the Short variant and unchanged for the Long variant.
LocaRangeScaled ==
    (l_call.op = "get_glyf_range" /\ l_call.ret # None) =>
        LET id == l_call.arg
            scale == IF l_table.variant = "Short" THEN 2 ELSE 1
        IN  l_call.ret = Some([start |-> scale * l_table.offsets[id + 1],
                               end |-> scale * l_table.offsets[id + 2]])

LocaExample == [variant |-> "Short", offsets |-> <<0, 16, 16, 48>>]

\* C6: get_glyf_range(id) returns a range iff id < numGlyphs and the glyph's
\* start offset is below its end offset, and None otherwise; the short loca
\* [0x0000, 0x0010, 0x0010, 0x0030] gives [0,32), None, [32,96).
LocaRangeIffNonEmpty ==
    l_call.op = "get_glyf_range" =>
        LET id == l_call.arg
        IN  /\ l_call.ret # None <=>
                   /\ id < numGlyphs(l_table)
                   /\ l_table.offsets[id + 1] < l_table.offsets[id + 2]
            /\ l_table = LocaExample =>
                   /\ id = 0 => l_call.ret = Some([start |-> 0, end |-> 32])
                   /\ id = 1 => l_call.ret = None
                   /\ id = 2 => l_call.ret = Some([start |-> 32, end |-> 96])
                   /\ id > 2 => l_call.ret = None

\* C6 happens: the third glyph of the example table has been asked for
LocaRangeWitness ==
    /\ l_table = LocaExample
    /\ l_call.op = "get_glyf_range"
    /\ l_call.arg = 2
    /\ l_call.ret = Some([start |-> 32, end |-> 96])

----------------------------------------------------------------------------
(* glyf.rs: SimpleGlyphTable, GlyphPointsIter *)

MaxContours == 2      \* most contours of a generated glyph
MaxPointIndex == 2    \* largest generated contour end point
MaxFlagBytes == 2     \* longest generated flag stream
MaxCoordBytes == 4    \* longest generated coordinate stream
MaxNones == 2         \* calls of next followed after the iterator is exhausted
MaxClones == 1        \* clones taken of the table's iterator

ON_CURVE_POINT == 1
X_SHORT_VECTOR == 2
Y_SHORT_VECTOR == 4
REPEAT_FLAG == 8
X_IS_SAME_OR_POSITIVE_X_SHORT_VECTOR == 16
Y_IS_SAME_OR_POSITIVE_Y_SHORT_VECTOR == 32

\* flags & mask != 0 for a one-bit mask
HasBit(flags, mask) == (flags \div mask) % 2 = 1

\* u16::to_be_bytes, to build inputs
U16ToBe(v) == <<v \div 256, v % 256>>

\* i16::wrapping_add
wrapping_add_i16(a, b) ==
    LET m == (a + b + I16Modulus) % I16Modulus
    IN  IF m > I16Max THEN m - I16Modulus ELSE m

\* u16::saturating_sub
saturating_sub(a, b) == IF a >= b THEN a - b ELSE 0

\* Stream::read::<u8> on (data, offset)
read_u8(data, offset) ==
    LET r == read_bytes(data, offset, 1)
    IN  [ret |-> IF r.ret = None THEN None ELSE Some(r.ret.val[1]), offset |-> r.offset]

\* Stream::read::<u16> on (data, offset)
read_u16(data, offset) ==
    LET r == read_bytes(data, offset, 2)
    IN  [ret |-> IF r.ret = None THEN None ELSE Some(U16FromBe(r.ret.val)), offset |-> r.offset]

\* Stream::read::<i16> on (data, offset)
read_i16(data, offset) ==
    LET r == read_bytes(data, offset, 2)
    IN  [ret |-> IF r.ret = None THEN None ELSE Some(I16FromBe(r.ret.val)), offset |-> r.offset]

\* the elements of a LazyArray<u16> over a slice
U16Array(bytes) == [k \in 1..(Len(bytes) \div 2) |-> bytes[2 * k - 1] * 256 + bytes[2 * k]]

is_1byte_x(flags) == HasBit(flags, X_SHORT_VECTOR)
is_2byte_x(flags) ==
    ~HasBit(flags, X_SHORT_VECTOR) /\ ~HasBit(flags, X_IS_SAME_OR_POSITIVE_X_SHORT_VECTOR)
get_x_byte_size(flags) ==
    (IF is_1byte_x(flags) THEN 1 ELSE 0) + (IF is_2byte_x(flags) THEN 2 ELSE 0)
is_1byte_y(flags) == HasBit(flags, Y_SHORT_VECTOR)
is_2byte_y(flags) ==
    ~HasBit(flags, Y_SHORT_VECTOR) /\ ~HasBit(flags, Y_IS_SAME_OR_POSITIVE_Y_SHORT_VECTOR)
\* get_y_byte_size with a 2-byte coordinate counted as one byte
get_y_byte_size_short(flags) ==
    (IF is_1byte_y(flags) THEN 1 ELSE 0) + (IF is_2byte_y(flags) THEN 1 ELSE 0)

get_y_byte_size(flags) ==
    (IF is_1byte_y(flags) THEN 1 ELSE 0) + (IF is_2byte_y(flags) THEN 2 ELSE 0)
is_on_curve_point(flags) == HasBit(flags, ON_CURVE_POINT)
repeat_flag(flags) == HasBit(flags, REPEAT_FLAG)

\* get_x_type with the two short cases exchanged
get_x_type_swapped(flags) ==
    IF is_1byte_x(flags)
        THEN IF HasBit(flags, X_IS_SAME_OR_POSITIVE_X_SHORT_VECTOR)
                 THEN "Negative8" ELSE "Positive8"
        ELSE IF HasBit(flags, X_IS_SAME_OR_POSITIVE_X_SHORT_VECTOR)
                 THEN "SamePrevious" ELSE "I16"

get_x_type(flags) ==
    IF is_1byte_x(flags)
        THEN IF HasBit(flags, X_IS_SAME_OR_POSITIVE_X_SHORT_VECTOR)
                 THEN "Positive8" ELSE "Negative8"
        ELSE IF HasBit(flags, X_IS_SAME_OR_POSITIVE_X_SHORT_VECTOR)
                 THEN "SamePrevious" ELSE "I16"

get_y_type(flags) ==
    IF is_1byte_y(flags)
        THEN IF HasBit(flags, Y_IS_SAME_OR_POSITIVE_Y_SHORT_VECTOR)
                 THEN "Positive8" ELSE "Negative8"
        ELSE IF HasBit(flags, Y_IS_SAME_OR_POSITIVE_Y_SHORT_VECTOR)
                 THEN "SamePrevious" ELSE "I16"

\* get_coords_len: the loop from (offset, flags_left, x_coords_len,
\* y_coords_len) on; Some of the two lengths and the stream's final offset
RECURSIVE get_coords_len(_, _, _, _, _)
get_coords_len(data, offset, flags_left, x_coords_len, y_coords_len) ==
    IF ~(flags_left > 0)
        THEN Some([x |-> x_coords_len, y |-> y_coords_len, offset |-> offset])
    ELSE LET f == read_u8(data, offset)
         IN  IF f.ret = None THEN None
             ELSE LET flags == f.ret.val
                      c == IF repeat_flag(flags) THEN read_u8(data, f.offset)
                           ELSE [ret |-> Some(0), offset |-> f.offset]
                  IN  IF c.ret = None THEN None
                      ELSE LET repeats == IF repeat_flag(flags) THEN c.ret.val + 1 ELSE 1
                           IN  IF repeats > flags_left THEN None
                               ELSE get_coords_len(data, c.offset, flags_left - repeats,
                                        x_coords_len + get_x_byte_size(flags) * repeats,
                                        y_coords_len + get_y_byte_size(flags) * repeats)

\* endPtsOfContours.last()?.checked_add(1)? without the + 1
number_of_points_is_last(endPtsOfContours) ==
    IF Len(endPtsOfContours) = 0 THEN None
    ELSE Some(endPtsOfContours[Len(endPtsOfContours)])

\* endPtsOfContours.last()?.checked_add(1)?
number_of_points(endPtsOfContours) ==
    IF Len(endPtsOfContours) = 0 THEN None
    ELSE IF endPtsOfContours[Len(endPtsOfContours)] + 1 > I16Modulus - 1 THEN None
    ELSE Some(endPtsOfContours[Len(endPtsOfContours)] + 1)

\* EndPointsIter::new
EndPointsIter_new(end_points_of_contours) ==
    IF lazy_get(end_points_of_contours, 0) = None THEN None
    ELSE Some([endpoints |-> end_points_of_contours, index |-> 1,
               left |-> lazy_get(end_points_of_contours, 0).val])

\* FlagsIter::new
FlagsIter_new(data) == [data |-> data, offset |-> 0, repeats |-> 0, flags |-> 0]

\* CoordsIter::new
CoordsIter_new(data) == [data |-> data, offset |-> 0, prev |-> 0]

\* SimpleGlyphTable::parse
SimpleGlyphTable_parse(data, number_of_contours) ==
    LET e == read_bytes(data, 0, number_of_contours * 2)
    IN  IF e.ret = None THEN None
    ELSE LET endPtsOfContours == U16Array(e.ret.val)
             n == number_of_points(endPtsOfContours)
         IN  IF n = None THEN None
    ELSE LET il == read_u16(data, e.offset)
         IN  IF il.ret = None THEN None
    ELSE LET ins == read_bytes(data, il.offset, il.ret.val)
         IN  IF ins.ret = None THEN None
    ELSE LET flags_offset == ins.offset
             cl == get_coords_len(data, flags_offset, n.val, 0, 0)
         IN  IF cl = None THEN None
    ELSE LET x_coords_offset == cl.val.offset
             y_coords_offset == x_coords_offset + cl.val.x
             y_coords_end == y_coords_offset + cl.val.y
             flags == slice_get(data, flags_offset, x_coords_offset)
             x_coords == slice_get(data, x_coords_offset, y_coords_offset)
             y_coords == slice_get(data, y_coords_offset, y_coords_end)
             endpoints == EndPointsIter_new(endPtsOfContours)
         IN  IF flags = None \/ x_coords = None \/ y_coords = None \/ endpoints = None
                 THEN None
             ELSE Some([endPtsOfContours |-> endPtsOfContours,
                        instructionLength |-> il.ret.val,
                        glyph_points_iter |->
                            [endpoints |-> endpoints.val,
                             flags |-> FlagsIter_new(flags.val),
                             x_coords |-> CoordsIter_new(x_coords.val),
                             y_coords |-> CoordsIter_new(y_coords.val),
                             points_left |-> n.val]])

\* EndPointsIter::next without the second saturating_sub
EndPointsIter_next_off_by_one(e) ==
    IF e.left = 0
        THEN LET endpoint == lazy_get(e.endpoints, e.index)
                 left == IF endpoint = None THEN e.left
                         ELSE saturating_sub(endpoint.val, e.endpoints[e.index])
                 index == IF e.index + 1 > I16Modulus - 1 THEN e.index ELSE e.index + 1
             IN  [ret |-> TRUE, iter |-> [e EXCEPT !.left = left, !.index = index]]
        ELSE [ret |-> FALSE, iter |-> [e EXCEPT !.left = e.left - 1]]

\* EndPointsIter::next: the flag and the iterator after the call
EndPointsIter_next(e) ==
    IF e.left = 0
        THEN LET endpoint == lazy_get(e.endpoints, e.index)
                 left == IF endpoint = None THEN e.left
                         ELSE saturating_sub(
                                  saturating_sub(endpoint.val, e.endpoints[e.index]), 1)
                 index == IF e.index + 1 > I16Modulus - 1 THEN e.index ELSE e.index + 1
             IN  [ret |-> TRUE, iter |-> [e EXCEPT !.left = left, !.index = index]]
        ELSE [ret |-> FALSE, iter |-> [e EXCEPT !.left = e.left - 1]]

\* FlagsIter::next: Some(flags) or Panic (an unwrap of a failed read), and
\* the iterator after the call
FlagsIter_next(f) ==
    IF f.repeats = 0
        THEN LET r == read_u8(f.data, f.offset)
             IN  IF r.ret = None THEN [ret |-> Panic, iter |-> f]
                 ELSE IF repeat_flag(r.ret.val)
                     THEN LET c == read_u8(f.data, r.offset)
                          IN  IF c.ret = None THEN [ret |-> Panic, iter |-> f]
                              ELSE [ret |-> Some(r.ret.val),
                                    iter |-> [f EXCEPT !.flags = r.ret.val,
                                                       !.repeats = c.ret.val,
                                                       !.offset = c.offset]]
                 ELSE [ret |-> Some(r.ret.val),
                       iter |-> [f EXCEPT !.flags = r.ret.val, !.offset = r.offset]]
        ELSE [ret |-> Some(f.flags), iter |-> [f EXCEPT !.repeats = f.repeats - 1]]

\* CoordsIter::next: Some(coordinate) or Panic, and the iterator after it
CoordsIter_next(c, coord_type) ==
    LET r == CASE coord_type = "Positive8" -> read_u8(c.data, c.offset)
               [] coord_type = "Negative8" -> read_u8(c.data, c.offset)
               [] coord_type = "I16" -> read_i16(c.data, c.offset)
               [] coord_type = "SamePrevious" -> [ret |-> Some(0), offset |-> c.offset]
        delta == CASE coord_type = "Positive8" -> r.ret.val
                   [] coord_type = "Negative8" -> -r.ret.val
                   [] coord_type = "I16" -> IF r.ret = None THEN 0 ELSE r.ret.val
                   [] coord_type = "SamePrevious" -> 0
    IN  IF r.ret = None /\ coord_type \in {"Positive8", "Negative8"}
            THEN [ret |-> Panic, iter |-> c]
        ELSE [ret |-> Some(wrapping_add_i16(c.prev, delta)),
              iter |-> [c EXCEPT !.offset = r.offset,
                                 !.prev = wrapping_add_i16(c.prev, delta)]]

\* GlyphPointsIter::next: Some(point), None or Panic, and the iterator after
GlyphPointsIter_next(it) ==
    IF it.points_left = 0 THEN [ret |-> None, iter |-> it]
    ELSE LET is_last == EndPointsIter_next(it.endpoints)
             flags == FlagsIter_next(it.flags)
         IN  IF flags.ret = Panic THEN [ret |-> Panic, iter |-> it]
    ELSE LET x == CoordsIter_next(it.x_coords, get_x_type(flags.ret.val))
             y == CoordsIter_next(it.y_coords, get_y_type(flags.ret.val))
         IN  IF x.ret = Panic \/ y.ret = Panic THEN [ret |-> Panic, iter |-> it]
             ELSE [ret |-> Some([x |-> x.ret.val, y |-> y.ret.val,
                                 is_on_curve |-> is_on_curve_point(flags.ret.val),
                                 is_last |-> is_last.ret]),
                   iter |-> [endpoints |-> is_last.iter, flags |-> flags.iter,
                             x_coords |-> x.iter, y_coords |-> y.iter,
                             points_left |-> it.points_left - 1]]

FlagVals == {1, 7, 17, 33, 55, 63}
CoordVals == {127, 255}
\* on-curve, both coordinates "same as previous" (0x31)
SamePreviousFlag ==
    ON_CURVE_POINT + X_IS_SAME_OR_POSITIVE_X_SHORT_VECTOR + Y_IS_SAME_OR_POSITIVE_Y_SHORT_VECTOR

\* k copies of v
Copies(v, k) == [j \in 1..k |-> v]

\* the bytes of a u16 array
RECURSIVE U16ArrayToBe(_)
U16ArrayToBe(a) == IF Len(a) = 0 THEN <<>> ELSE U16ToBe(Head(a)) \o U16ArrayToBe(Tail(a))

\* a simple glyph after its header: endPtsOfContours, instructionLength,
\* instructions, then the flag and coordinate streams
GlyphBytes(endPts, instructions, tail) ==
    [data |-> U16ArrayToBe(endPts) \o U16ToBe(Len(instructions)) \o instructions \o tail,
     number_of_contours |-> Len(endPts)]

\* glyphs of 0..MaxContours contours with any end points, every point with
\* both coordinates "same as previous"; with drop = 1 the last flag is missing
ContourInputs ==
    {GlyphBytes(e, <<>>,
                Copies(SamePreviousFlag,
                       IF Len(e) = 0 THEN 0
                       ELSE IF e[Len(e)] + 1 >= drop THEN e[Len(e)] + 1 - drop ELSE 0)) :
        e \in SeqsUpTo(0..MaxPointIndex, MaxContours), drop \in {0, 1}}

\* glyphs of one contour of n points with any flag and coordinate bytes
CoordInputs ==
    {GlyphBytes(<<n - 1>>, i, f \o c) :
        n \in 1..MaxFlagBytes, i \in {<<>>, <<0>>},
        f \in SeqsUpTo(FlagVals, MaxFlagBytes) \ {<<>>},
        c \in SeqsUpTo(CoordVals, MaxCoordBytes)}

\* endPtsOfContours=[1], no instructions, flags [0x37, 0x37], x bytes
\* [10, 5], y bytes [20, 3]
ExampleGlyph == GlyphBytes(<<1>>, <<>>, <<55, 55, 10, 5, 20, 3>>)

GlyphInputs == ContourInputs \cup CoordInputs \cup {ExampleGlyph}

GlyfInit ==
    /\ g_data \in GlyphInputs
    /\ g_table = SimpleGlyphTable_parse(g_data.data, g_data.number_of_contours)
    /\ g_iter = IF g_table = None THEN None ELSE g_table.val.glyph_points_iter
    /\ g_points = <<>>
    /\ g_nones = 0
    /\ g_clones = 0
    /\ g_ret = Fresh

GlyfIdle ==
    /\ g_data = [data |-> <<>>, number_of_contours |-> 0]
    /\ g_table = None
    /\ g_iter = None
    /\ g_points = <<>>
    /\ g_nones = 0
    /\ g_clones = 0
    /\ g_ret = Fresh

\* GlyphPointsIter::next on the clone
GlyphNext ==
    /\ g_table # None
    /\ g_ret # Panic
    /\ g_nones < MaxNones
    /\ LET r == GlyphPointsIter_next(g_iter)
       IN  /\ g_iter' = r.iter
           /\ g_ret' = r.ret
           /\ g_points' = IF r.ret.tag = "Some" THEN Append(g_points, r.ret.val) ELSE g_points
           /\ g_nones' = IF r.ret = None THEN g_nones + 1 ELSE g_nones
    /\ UNCHANGED <<g_data, g_table, g_clones, glyfOthers>>

\* GlyphPointsIter::clone of the iterator the table holds
GlyphClone ==
    /\ g_table # None
    /\ g_ret # Panic
    /\ g_clones < MaxClones
    /\ g_iter' = g_table.val.glyph_points_iter
    /\ g_points' = <<>>
    /\ g_nones' = 0
    /\ g_clones' = g_clones + 1
    /\ g_ret' = Fresh
    /\ UNCHANGED <<g_data, g_table, glyfOthers>>

GlyfNext ==
    \/ GlyphNext
    \/ GlyphClone

LastEndPoint == g_table.val.endPtsOfContours[Len(g_table.val.endPtsOfContours)]

\* C7: for every parsed simple glyph the iterator yields exactly
\* endPtsOfContours[last] + 1 points and then None on every further call,
\* and so does a fresh clone.
GlyphPointCount ==
    g_table # None =>
        /\ g_ret # Panic
        /\ Len(g_points) <= LastEndPoint + 1
        /\ g_ret = None => Len(g_points) = LastEndPoint + 1
        /\ g_nones > 0 => g_ret = None

\* C7 happens: a clone has yielded three points and then None twice
GlyphPointCountWitness ==
    /\ g_table # None
    /\ g_clones >= 1
    /\ g_nones >= 2
    /\ Len(g_points) = 3

\* the flag of each point: a flag with REPEAT set stands for itself and as
\* many more copies as the next byte says
RECURSIVE ExpandFlags(_)
ExpandFlags(bytes) ==
    IF Len(bytes) = 0 THEN <<>>
    ELSE IF HasBit(bytes[1], REPEAT_FLAG)
        THEN Copies(bytes[1], bytes[2] + 1) \o ExpandFlags(SubSeq(bytes, 3, Len(bytes)))
        ELSE <<bytes[1]>> \o ExpandFlags(Tail(bytes))

\* the bytes one delta takes: 1 if SHORT is set, 0 if only SAME_OR_POSITIVE
\* is set, 2 if neither is
DeltaSize(flags, short, same) ==
    IF HasBit(flags, short) THEN 1 ELSE IF HasBit(flags, same) THEN 0 ELSE 2

\* the delta of point j (from 1), read where the deltas of the earlier
\* points end
RECURSIVE DeltaOffset(_, _, _, _)
DeltaOffset(fl, j, short, same) ==
    IF j = 1 THEN 0
    ELSE DeltaOffset(fl, j - 1, short, same) + DeltaSize(fl[j - 1], short, same)

Delta(fl, bytes, j, short, same) ==
    LET at == DeltaOffset(fl, j, short, same)
    IN  IF HasBit(fl[j], short)
            THEN IF HasBit(fl[j], same) THEN bytes[at + 1] ELSE -bytes[at + 1]
        ELSE IF HasBit(fl[j], same) THEN 0
        ELSE LET u == bytes[at + 1] * 256 + bytes[at + 2]
             IN  IF u >= 32768 THEN u - 65536 ELSE u

RECURSIVE DeltaSum(_, _, _, _, _)
DeltaSum(fl, bytes, k, short, same) ==
    IF k = 0 THEN 0
    ELSE DeltaSum(fl, bytes, k - 1, short, same) + Delta(fl, bytes, k, short, same)

\* a sum as a signed 16-bit value
AsI16(v) == ((v + 32768) % 65536) - 32768

PointFlags == ExpandFlags(g_table.val.glyph_points_iter.flags.data)
XBytes == g_table.val.glyph_points_iter.x_coords.data
YBytes == g_table.val.glyph_points_iter.y_coords.data

ExamplePoints ==
    (g_data = ExampleGlyph /\ Len(g_points) = 2) =>
        /\ g_points[1] = [x |-> 10, y |-> 20, is_on_curve |-> TRUE, is_last |-> FALSE]
        /\ g_points[2] = [x |-> 15, y |-> 23, is_on_curve |-> TRUE, is_last |-> TRUE]

\* C8 as stated: the k-th point has x (y) equal to the sum of the first k+1
\* x-deltas (y-deltas), each decoded from the point's flag: SHORT set -> one
\* unsigned byte, negated unless SAME_OR_POSITIVE is set; only
\* SAME_OR_POSITIVE set -> 0, no bytes; both clear -> two bytes, big-endian,
\* signed.  Flags [0x37,0x37], x [10,5], y [20,3] give (10,20), (15,23).
GlyphCoordsPlainSum ==
    g_table # None =>
        /\ \A k \in 1..Len(g_points) :
             /\ g_points[k].x =
                    DeltaSum(PointFlags, XBytes, k, X_SHORT_VECTOR,
                             X_IS_SAME_OR_POSITIVE_X_SHORT_VECTOR)
             /\ g_points[k].y =
                    DeltaSum(PointFlags, YBytes, k, Y_SHORT_VECTOR,
                             Y_IS_SAME_OR_POSITIVE_Y_SHORT_VECTOR)
        /\ ExamplePoints

\* C8 amended: the k-th point has x (y) equal to the sum of the first k+1
\* deltas reduced to a signed 16-bit value (the running position wraps
\* around on overflow); the deltas are decoded as stated.
GlyphCoordsWrappedSum ==
    g_table # None =>
        /\ \A k \in 1..Len(g_points) :
             /\ g_points[k].x =
                    AsI16(DeltaSum(PointFlags, XBytes, k, X_SHORT_VECTOR,
                                   X_IS_SAME_OR_POSITIVE_X_SHORT_VECTOR))
             /\ g_points[k].y =
                    AsI16(DeltaSum(PointFlags, YBytes, k, Y_SHORT_VECTOR,
                                   Y_IS_SAME_OR_POSITIVE_Y_SHORT_VECTOR))
        /\ ExamplePoints

\* C8 happens: both points of the example glyph have been yielded
GlyphCoordsWitness ==
    /\ g_data = ExampleGlyph
    /\ Len(g_points) = 2
    /\ g_points[2].x = 15
    /\ g_points[2].y = 23

StrictlyIncreasing(a) == \A k \in 1..(Len(a) - 1) : a[k] < a[k + 1]

\* C9: for strictly increasing endPtsOfContours the point at index k (from
\* 0, in iteration order) has is_last = true iff k is in endPtsOfContours.
GlyphContourEnds ==
    (g_table # None /\ StrictlyIncreasing(g_table.val.endPtsOfContours)) =>
        \A k \in 1..Len(g_points) :
            g_points[k].is_last <=>
                \E c \in 1..Len(g_table.val.endPtsOfContours) :
                    g_table.val.endPtsOfContours[c] = k - 1

\* C9 happens: all three points of a glyph with contours ending at 0 and 2
\* have been yielded
GlyphContourEndsWitness ==
    /\ g_table # None
    /\ g_table.val.endPtsOfContours = <<0, 2>>
    /\ Len(g_points) = 3

\* C29: the two passes over a simple glyph agree: for a glyph that
\* SimpleGlyphTable::parse accepts no read of FlagsIter or of the two
\* CoordsIter runs past its slice (no call of next panics, no cursor leaves
\* its slice), and once all points are yielded each of the three streams is
\* exactly at its end, with no repeat of a flag left over: the lengths
\* get_coords_len computed are the bytes the iterators consume
GlyphPassesAgree ==
    g_table # None =>
        /\ g_ret # Panic
        /\ g_iter.flags.offset <= Len(g_iter.flags.data)
        /\ g_iter.x_coords.offset <= Len(g_iter.x_coords.data)
        /\ g_iter.y_coords.offset <= Len(g_iter.y_coords.data)
        /\ g_iter.points_left = 0 =>
               /\ g_iter.flags.offset = Len(g_iter.flags.data)
               /\ g_iter.flags.repeats = 0
               /\ g_iter.x_coords.offset = Len(g_iter.x_coords.data)
               /\ g_iter.y_coords.offset = Len(g_iter.y_coords.data)

\* C29 happens: a REPEAT flag with count 1 has stood for two points, each with
\* a 1-byte x and a 1-byte y, and both points have been yielded
GlyphPassesAgreeWitness ==
    /\ g_table # None
    /\ g_iter.flags.data = <<63, 1>>
    /\ Len(g_iter.x_coords.data) = 2
    /\ Len(g_iter.y_coords.data) = 2
    /\ g_iter.points_left = 0
    /\ Len(g_points) = 2

\* a glyph with 2-byte coordinates has been iterated to its end as well
GlyphPassesAgreeWide ==
    /\ g_table # None
    /\ g_iter.flags.data = <<1>>
    /\ Len(g_iter.x_coords.data) = 2
    /\ Len(g_iter.y_coords.data) = 2
    /\ g_iter.points_left = 0
    /\ Len(g_points) = 1

----------------------------------------------------------------------------
(* morx.rs: the regions of an extended state table *)

\* offsets from the start of the payload a header can name, and data.len()
RegionOffsetVals == {16, 20, 24, 28, 40}
PayloadLenVals == {32, 36}

MorxInputs ==
    {[kind |-> "Rearrangement", classTableOffset |-> c, stateArrayOffset |-> st,
      entryTableOffset |-> e, substitution_table_offset |-> 0, len |-> n] :
        c \in RegionOffsetVals, st \in RegionOffsetVals, e \in RegionOffsetVals,
        n \in PayloadLenVals}
    \cup
    {[kind |-> "Contextual", classTableOffset |-> c, stateArrayOffset |-> st,
      entryTableOffset |-> e, substitution_table_offset |-> su, len |-> n] :
        c \in RegionOffsetVals, st \in RegionOffsetVals, e \in RegionOffsetVals,
        su \in RegionOffsetVals, n \in PayloadLenVals}

\* the closure of the fold of make_rank, with >= for >
rank_step_or_equal(accumulator, value, part) ==
    accumulator + (IF value >= part THEN 1 ELSE 0)

\* the closure of the fold of make_rank
rank_step(accumulator, value, part) ==
    accumulator + (IF value > part THEN 1 ELSE 0)

\* values.iter().fold(0, ...) over the first k values
RECURSIVE rank_fold(_, _, _)
rank_fold(values, value, k) ==
    IF k = 0 THEN 0
    ELSE rank_step(rank_fold(values, value, k - 1), value, values[k])

\* make_rank: the fold for each value in turn
make_rank(values) ==
    [i \in 1..Len(values) |-> rank_fold(values, values[i], Len(values))]

\* offsets[ranks[k] + 1] for the k-th region (k from 0): Panic when the
\* index is past the array
region_end(offsets, ranks, k) ==
    IF ranks[k + 1] + 1 >= Len(offsets) THEN Panic
    ELSE Some(offsets[ranks[k + 1] + 2])

\* data.get(start..end) of a payload of len bytes: is there such a slice
region_get(start, end, len) == start <= end /\ end <= len

\* MorxSubtableRearrangement::parse up to the three region slices
Rearrangement_regions(in) ==
    LET class_start == in.classTableOffset
        state_start == in.stateArrayOffset
        entry_start == in.entryTableOffset
        end == in.len
        offsets == <<class_start, state_start, entry_start, end>>
        ranks == make_rank(offsets)
        class_end == region_end(offsets, ranks, 0)
        state_end == region_end(offsets, ranks, 1)
        entry_end == region_end(offsets, ranks, 2)
    IN  IF class_end = Panic \/ state_end = Panic \/ entry_end = Panic THEN Panic
        ELSE IF ~region_get(class_start, class_end.val, end) THEN None
        ELSE IF ~region_get(state_start, state_end.val, end) THEN None
        ELSE IF ~region_get(entry_start, entry_end.val, end) THEN None
        ELSE Some([class_end |-> class_end.val, state_end |-> state_end.val,
                   entry_end |-> entry_end.val, substitution_end |-> 0])

\* MorxSubtableContextual::parse up to the two region slices it takes
Contextual_regions(in) ==
    LET class_start == in.classTableOffset
        state_start == in.stateArrayOffset
        entry_start == in.entryTableOffset
        substitution_start == in.substitution_table_offset
        end == in.len
        offsets == <<class_start, state_start, entry_start, substitution_start, end>>
        ranks == make_rank(offsets)
        class_end == region_end(offsets, ranks, 0)
        state_end == region_end(offsets, ranks, 1)
        entry_end == region_end(offsets, ranks, 2)
        substitution_end == region_end(offsets, ranks, 3)
    IN  IF class_end = Panic \/ state_end = Panic \/ entry_end = Panic
           \/ substitution_end = Panic THEN Panic
        ELSE IF ~region_get(class_start, class_end.val, end) THEN None
        ELSE IF ~region_get(state_start, state_end.val, end) THEN None
        ELSE Some([class_end |-> class_end.val, state_end |-> state_end.val,
                   entry_end |-> entry_end.val,
                   substitution_end |-> substitution_end.val])

MorxInit ==
    /\ m_input \in MorxInputs
    /\ m_ret = Fresh

MorxIdle ==
    /\ m_input = [kind |-> "idle"]
    /\ m_ret = Fresh

RearrangementParse ==
    /\ m_input.kind = "Rearrangement"
    /\ m_ret = Fresh
    /\ m_ret' = Rearrangement_regions(m_input)
    /\ UNCHANGED <<m_input, morxOthers>>

ContextualParse ==
    /\ m_input.kind = "Contextual"
    /\ m_ret = Fresh
    /\ m_ret' = Contextual_regions(m_input)
    /\ UNCHANGED <<m_input, morxOthers>>

MorxNext ==
    \/ RearrangementParse
    \/ ContextualParse

\* the starts of the regions of the payload, and the payload end
RegionStarts ==
    IF m_input.kind = "Rearrangement"
        THEN <<m_input.classTableOffset, m_input.stateArrayOffset,
               m_input.entryTableOffset>>
        ELSE <<m_input.classTableOffset, m_input.stateArrayOffset,
               m_input.entryTableOffset, m_input.substitution_table_offset>>

\* the regions lie in the payload in some order: distinct starts below the end
RegionsPermuted ==
    /\ \A i, j \in 1..Len(RegionStarts) : i # j => RegionStarts[i] # RegionStarts[j]
    /\ \A i \in 1..Len(RegionStarts) : RegionStarts[i] < m_input.len

\* the smallest of the other starts and the payload end that is greater
\* than start
NextGreater(start) ==
    CHOOSE v \in {RegionStarts[i] : i \in 1..Len(RegionStarts)} \cup {m_input.len} :
        /\ v > start
        /\ \A w \in {RegionStarts[i] : i \in 1..Len(RegionStarts)} \cup {m_input.len} :
             w > start => v <= w

\* C10: whatever the order of the regions in memory, parse takes as each
\* region's end the smallest value greater than its start among the other
\* region starts and the payload end.
MorxRegionEnds ==
    (m_input.kind \in {"Rearrangement", "Contextual"} /\ m_ret # Fresh /\ RegionsPermuted) =>
        /\ m_ret.tag = "Some"
        /\ m_ret.val.class_end = NextGreater(m_input.classTableOffset)
        /\ m_ret.val.state_end = NextGreater(m_input.stateArrayOffset)
        /\ m_ret.val.entry_end = NextGreater(m_input.entryTableOffset)
        /\ m_input.kind = "Contextual" =>
               m_ret.val.substitution_end = NextGreater(m_input.substitution_table_offset)

----------------------------------------------------------------------------
(* glyf.rs: Glyph, GlyphTable and CompositeGlyphIter *)

MaxComponents == 2    \* most components of a generated composite glyph
MaxCut == 3           \* most bytes cut off the end of a generated glyph
MaxComponentNones == 2  \* calls of next followed after the first None

ARG_1_AND_2_ARE_WORDS == 1
ARGS_ARE_XY_VALUES == 2
WE_HAVE_A_SCALE == 8
MORE_COMPONENTS == 32
WE_HAVE_AN_X_AND_Y_SCALE == 64
WE_HAVE_A_TWO_BY_TWO == 128

\* GlyphHeader::SIZE
GlyphHeaderSize == 2 * 5

\* 1.0 as an F2DOT14: Transform::default has a = d = 1.0.  The entries of a
\* Transform are kept as F2DOT14 numerators (value * 2^14).
F2Dot14One == 16384

args_are_xy_values(flags) == HasBit(flags, ARGS_ARE_XY_VALUES)
arg_1_and_2_are_16bit(flags) == HasBit(flags, ARG_1_AND_2_ARE_WORDS)
we_have_a_two_by_two(flags) == HasBit(flags, WE_HAVE_A_TWO_BY_TWO)
we_have_an_x_and_y_scale(flags) == HasBit(flags, WE_HAVE_AN_X_AND_Y_SCALE)
we_have_a_scale(flags) == HasBit(flags, WE_HAVE_A_SCALE)
more_components(flags) == HasBit(flags, MORE_COMPONENTS)

\* Stream::get_tail (called at glyf.rs:41, 48): the bytes from the cursor on
get_tail(data, offset) == slice_get(data, offset, Len(data))

\* Stream::set_end (called at glyf.rs:520): the cursor moved to the end of the
\* region, so that the first read of the next call fails
set_end(data) == Len(data)

\* i8::from_be_bytes
I8FromBe(b) == IF b[1] > 127 THEN b[1] - 256 ELSE b[1]

\* Stream::read::<T> on (data, offset) for the types a component is made of
read_as(T, data, offset) ==
    LET size == IF T \in {"u8", "i8"} THEN 1 ELSE 2
        r == read_bytes(data, offset, size)
        value == CASE T = "u8" -> r.ret.val[1]
                   [] T = "i8" -> I8FromBe(r.ret.val)
                   [] T = "u16" -> U16FromBe(r.ret.val)
                   [] T \in {"i16", "F2DOT14"} -> I16FromBe(r.ret.val)
    IN  [ret |-> IF r.ret = None THEN None ELSE Some(value), offset |-> r.offset]

\* s.read::<T1>()?; s.read::<T2>()?; ...: the values read, or None after the
\* first read that fails, and the cursor the stream is left with
RECURSIVE read_seq(_, _, _)
read_seq(types, data, offset) ==
    IF Len(types) = 0 THEN [ret |-> Some(<<>>), offset |-> offset]
    ELSE LET r == read_as(Head(types), data, offset)
         IN  IF r.ret = None THEN r
             ELSE LET rest == read_seq(Tail(types), data, r.offset)
                  IN  IF rest.ret = None THEN rest
                      ELSE [ret |-> Some(<<r.ret.val>> \o rest.ret.val),
                            offset |-> rest.offset]

\* the end of next with the cursor left where the component ended
component_end_keeps_cursor(flags, data, offset) == offset

\* the end of CompositeGlyphIter::next: the cursor after a component, moved to
\* the end of the region by the component that clears MORE_COMPONENTS
component_end(flags, data, offset) ==
    IF ~more_components(flags) THEN set_end(data) ELSE offset

\* CompositeGlyphIter::next on (stream.data, stream.offset): the component
\* and the cursor the stream is left with; every read is followed by `?`, so
\* the first read that fails ends the call with None
CompositeGlyphIter_next(data, offset) ==
    LET f == read_as("u16", data, offset)
        g == read_as("u16", data, f.offset)
        flags == f.ret.val
        xy == args_are_xy_values(flags)
        argType == IF xy
                   THEN (IF arg_1_and_2_are_16bit(flags) THEN "i16" ELSE "i8")
                   ELSE (IF arg_1_and_2_are_16bit(flags) THEN "u16" ELSE "u8")
        a1 == read_as(argType, data, g.offset)
        a2 == read_as(argType, data, a1.offset)
        scales == IF we_have_a_two_by_two(flags) THEN 4
                  ELSE IF we_have_an_x_and_y_scale(flags) THEN 2
                  ELSE IF we_have_a_scale(flags) THEN 1
                  ELSE 0
        s1 == read_as("F2DOT14", data, a2.offset)
        s2 == read_as("F2DOT14", data, s1.offset)
        s3 == read_as("F2DOT14", data, s2.offset)
        s4 == read_as("F2DOT14", data, s3.offset)
        last == CASE scales = 4 -> s4
                  [] scales = 2 -> s2
                  [] scales = 1 -> s1
                  [] OTHER -> a2
        transform ==
            [a |-> IF scales = 0 THEN F2Dot14One ELSE s1.ret.val,
             b |-> IF scales = 4 THEN s2.ret.val ELSE 0,
             c |-> IF scales = 4 THEN s3.ret.val ELSE 0,
             d |-> CASE scales = 4 -> s4.ret.val
                     [] scales = 2 -> s2.ret.val
                     [] scales = 1 -> s1.ret.val
                     [] OTHER -> F2Dot14One,
             e |-> IF xy THEN a1.ret.val ELSE 0,
             f |-> IF xy THEN a2.ret.val ELSE 0]
    IN  IF f.ret = None THEN [ret |-> None, offset |-> f.offset]
        ELSE IF g.ret = None THEN [ret |-> None, offset |-> g.offset]
        ELSE IF a1.ret = None THEN [ret |-> None, offset |-> a1.offset]
        ELSE IF a2.ret = None THEN [ret |-> None, offset |-> a2.offset]
        ELSE IF scales >= 1 /\ s1.ret = None THEN [ret |-> None, offset |-> s1.offset]
        ELSE IF scales >= 2 /\ s2.ret = None THEN [ret |-> None, offset |-> s2.offset]
        ELSE IF scales = 4 /\ s3.ret = None THEN [ret |-> None, offset |-> s3.offset]
        ELSE IF scales = 4 /\ s4.ret = None THEN [ret |-> None, offset |-> s4.offset]
        ELSE [ret |-> Some([glyph_id |-> g.ret.val, flags |-> flags,
                            transform |-> transform,
                            parent_glyph_point_number |->
                                IF xy THEN None ELSE Some(a1.ret.val),
                            child_glyph_point_number |->
                                IF xy THEN None ELSE Some(a2.ret.val)]),
              offset |-> component_end(flags, data, last.offset)]

\* GlyphHeader::get_type
GlyphHeader_get_type(numberOfContours) ==
    IF numberOfContours >= 0 THEN "Simple" ELSE "Composite"

\* Glyph::parse: the subtable of the glyph, or None
Glyph_parse(data) ==
    LET header == read_bytes(data, 0, GlyphHeaderSize)
    IN  IF header.ret = None THEN None
        ELSE
        LET numberOfContours == I16FromBe(header.ret.val)
            tail == get_tail(data, header.offset)
        IN  IF tail = None THEN None
            ELSE IF GlyphHeader_get_type(numberOfContours) = "Simple"
            THEN LET table == SimpleGlyphTable_parse(tail.val, numberOfContours)
                 IN  IF table = None THEN None
                     ELSE Some([kind |-> "Simple", table |-> table.val])
            ELSE Some([kind |-> "Composite", data |-> tail.val])

\* GlyphTable::get_glyph_points_iter: the Composite arm is todo!(), a panic
get_glyph_points_iter(subtable) ==
    IF subtable.kind = "Simple" THEN Some(subtable.table.glyph_points_iter)
    ELSE Panic

\* the flag words of the generated components: anchor points in bytes and the
\* three scale bits at once (0xC8), xy words (0x03), the same with
\* MORE_COMPONENTS (0x23), one scale (0x2A), two scales (0x62), a two by two
\* (0x82), and nothing but MORE_COMPONENTS (0x20)
ComponentFlagVals == {3, 32, 35, 42, 98, 130, 200}

\* the bytes of the j-th generated component with these flags: glyph ID j,
\* arguments 0xFF06 and 0x0005 (or 0xFF and 0x05), scales 1.0, -1.0, 0.5, 1.0
ComponentBytes(flags, j) ==
    U16ToBe(flags) \o U16ToBe(j)
    \o (IF arg_1_and_2_are_16bit(flags) THEN <<255, 6, 0, 5>> ELSE <<255, 5>>)
    \o (IF we_have_a_two_by_two(flags) THEN <<64, 0, 192, 0, 32, 0, 64, 0>>
        ELSE IF we_have_an_x_and_y_scale(flags) THEN <<64, 0, 192, 0>>
        ELSE IF we_have_a_scale(flags) THEN <<192, 0>>
        ELSE <<>>)

RECURSIVE ComponentsBytes(_, _)
ComponentsBytes(flagSeq, j) ==
    IF j > Len(flagSeq) THEN <<>>
    ELSE ComponentBytes(flagSeq[j], j) \o ComponentsBytes(flagSeq, j + 1)

\* a glyph header with this numberOfContours and an empty bounding box
HeaderBytes(numberOfContours) ==
    U16ToBe((numberOfContours + I16Modulus) % I16Modulus) \o <<0, 0, 0, 0, 0, 0, 0, 0>>

CompositeInputs ==
    {[flags |-> fs, cut |-> c, numberOfContours |-> -1] :
        fs \in SeqsUpTo(ComponentFlagVals, MaxComponents) \ {<<>>}, c \in 0..MaxCut}
    \cup {[flags |-> <<3>>, cut |-> 0, numberOfContours |-> -2],
          [flags |-> <<>>, cut |-> 0, numberOfContours |-> 1],
          [flags |-> <<>>, cut |-> 1, numberOfContours |-> 1]}

\* the bytes of a generated glyph: a composite one for a negative
\* numberOfContours, the two-point simple glyph otherwise
InputBytes(in) ==
    LET all == HeaderBytes(in.numberOfContours)
               \o (IF in.numberOfContours < 0 THEN ComponentsBytes(in.flags, 1)
                   ELSE ExampleGlyph.data)
    IN  SubSeq(all, 1, Len(all) - in.cut)

CompositeInit ==
    /\ k_input \in CompositeInputs
    /\ k_data = InputBytes(k_input)
    /\ k_glyph = Glyph_parse(k_data)
    /\ k_offset = 0
    /\ k_components = <<>>
    /\ k_nones = 0
    /\ k_ret = Fresh
    /\ k_points = Fresh

CompositeIdle ==
    /\ k_input = [flags |-> <<>>, cut |-> 0, numberOfContours |-> 0]
    /\ k_data = <<>>
    /\ k_glyph = None
    /\ k_offset = 0
    /\ k_components = <<>>
    /\ k_nones = 0
    /\ k_ret = Fresh
    /\ k_points = Fresh

\* CompositeGlyphIter::next on the iterator of a composite glyph
ComponentNext ==
    /\ k_glyph # None
    /\ k_glyph.val.kind = "Composite"
    /\ k_points # Panic
    /\ k_nones < MaxComponentNones
    /\ LET r == CompositeGlyphIter_next(k_glyph.val.data, k_offset)
       IN  /\ k_offset' = r.offset
           /\ k_ret' = r.ret
           /\ k_components' = IF r.ret = None THEN k_components
                              ELSE Append(k_components, r.ret.val)
           /\ k_nones' = IF r.ret = None THEN k_nones + 1 ELSE k_nones
    /\ UNCHANGED <<k_input, k_data, k_glyph, k_points, compositeOthers>>

\* GlyphTable::get_glyph_points_iter on the parsed glyph
GetGlyphPointsIter ==
    /\ k_glyph # None
    /\ k_points = Fresh
    /\ k_points' = get_glyph_points_iter(k_glyph.val)
    /\ UNCHANGED <<k_input, k_data, k_glyph, k_offset, k_components, k_nones, k_ret,
                   compositeOthers>>

CompositeNext ==
    \/ ComponentNext
    \/ GetGlyphPointsIter

\* C11: obtaining the points of a composite glyph ends with points or with a
\* decode failure; it never aborts the process.
CompositePointsTerminate ==
    (k_glyph # None /\ k_glyph.val.kind = "Composite") => k_points # Panic

\* the bytes a component with these flags takes
ComponentSize(flags) == Len(ComponentBytes(flags, 0))

RECURSIVE ComponentsSize(_, _)
ComponentsSize(flagSeq, j) ==
    IF j = 0 THEN 0 ELSE ComponentSize(flagSeq[j]) + ComponentsSize(flagSeq, j - 1)

\* the components a composite glyph holds: those up to and including the
\* first whose flags clear MORE_COMPONENTS, as far as their bytes are all there
ComponentsHeld ==
    LET fs == k_input.flags
        whole == {j \in 0..Len(fs) :
                     ComponentsSize(fs, j) <= Len(k_glyph.val.data)}
        ended == {j \in 1..Len(fs) : ~HasBit(fs[j], MORE_COMPONENTS)}
        reach == {j \in whole : \A i \in ended : j <= i}
    IN  CHOOSE j \in reach : \A i \in reach : i <= j

----------------------------------------------------------------------------
(* decoder.rs: LazyArray::binary_search_by *)

MaxElems == 3         \* most whole elements of a searched array

\* the elements of the arrays searched by tag, the tags looked up, and the
\* elements of the arrays searched with an arbitrary comparator
TagVals == {1, 2, 3, 260}
LookupTags == {0, 1, 2, 3, 260, 261}
ElemVals == {1, 2}

\* u16::SIZE, the element size of the searched arrays
U16Size == 2

\* LazyArray::<u16>::len
lazy_len(buffer) == Len(buffer) \div U16Size

\* LazyArray::<u16>::get
lazy_array_get(buffer, index) ==
    IF index < lazy_len(buffer)
    THEN LET start == index * U16Size
             end == start + U16Size
             bytes == slice_get(buffer, start, end)
         IN  IF bytes = None THEN None ELSE Some(U16FromBe(bytes.val))
    ELSE None

\* Ord::cmp
Cmp(a, b) == IF a < b THEN "Less" ELSE IF a = b THEN "Equal" ELSE "Greater"

\* the loop of binary_search_by with the halves compared the wrong way round
search_loop_reversed(buffer, f, base, size, probes) ==
    [base |-> IF f[lazy_array_get(buffer, base + (size \div 2)).val] = "Less"
              THEN base ELSE base + (size \div 2),
     size |-> size - (size \div 2),
     probes |-> Append(probes, base + (size \div 2))]

\* one turn of the loop of binary_search_by whose get succeeded
search_loop(buffer, f, base, size, probes) ==
    LET half == size \div 2
        mid == base + half
        cmp == f[lazy_array_get(buffer, mid).val]
    IN  [base |-> IF cmp = "Greater" THEN base ELSE mid,
         size |-> size - half,
         probes |-> Append(probes, mid)]

\* the end of binary_search_by without the last comparison
search_result_unchecked(f, base, value) == Some(<<base, value>>)

\* the end of binary_search_by: the element the loop stopped at, if the
\* comparator reports Equal for it
search_result(f, base, value) ==
    IF f[value] = "Equal" THEN Some(<<base, value>>) ELSE None

\* LazyArray::binary_search_by from the loop on: the result and the indices
\* given to get
RECURSIVE search_from(_, _, _, _, _)
search_from(buffer, f, base, size, probes) ==
    IF size > 1
    THEN IF lazy_array_get(buffer, base + (size \div 2)) = None
         THEN [ret |-> None, probes |-> Append(probes, base + (size \div 2))]
         ELSE LET n == search_loop(buffer, f, base, size, probes)
              IN  search_from(buffer, f, n.base, n.size, n.probes)
    ELSE LET value == lazy_array_get(buffer, base)
         IN  [ret |-> IF value = None THEN None ELSE search_result(f, base, value.val),
              probes |-> Append(probes, base)]

\* LazyArray::binary_search_by
binary_search_by(buffer, f) ==
    IF lazy_len(buffer) = 0 THEN [ret |-> None, probes |-> <<>>]
    ELSE search_from(buffer, f, 0, lazy_len(buffer), <<>>)

Orderings == {"Less", "Equal", "Greater"}

\* arrays of tags in any order, with or without a trailing partial element,
\* searched for a tag; arrays searched with any comparator at all
SearchInputs ==
    {[buffer |-> U16ArrayToBe(a) \o extra, cmp |-> [v \in TagVals |-> Cmp(v, t)], tag |-> t] :
        a \in SeqsUpTo(TagVals, MaxElems), extra \in {<<>>, <<1>>}, t \in LookupTags}
    \cup
    {[buffer |-> U16ArrayToBe(a) \o extra, cmp |-> f, tag |-> -1] :
        a \in SeqsUpTo(ElemVals, MaxElems), extra \in {<<>>, <<1>>},
        f \in [ElemVals -> Orderings]}

SearchInit ==
    /\ \E in \in SearchInputs :
           /\ b_buffer = in.buffer
           /\ b_cmp = in.cmp
           /\ b_tag = in.tag
    /\ b_call = Fresh

SearchIdle ==
    /\ b_buffer = <<>>
    /\ b_cmp = <<>>
    /\ b_tag = -1
    /\ b_call = [tag |-> "Idle"]

BinarySearchBy ==
    /\ b_call = Fresh
    /\ b_call' = binary_search_by(b_buffer, b_cmp)
    /\ UNCHANGED <<b_buffer, b_cmp, b_tag, searchOthers>>

SearchNext == BinarySearchBy

SearchDone == b_call \notin {Fresh, [tag |-> "Idle"]}

\* the whole elements of the searched array
SearchElems == U16Array(b_buffer)

\* C14: for any array contents and any comparator, binary_search_by only gives
\* get indices inside [0, len), returns None when the comparator reports Equal
\* for no element, and returns Some((i, v)) only when v = get(i) and the
\* comparator reports Equal for v.
SearchSafe ==
    SearchDone =>
        /\ \A k \in 1..Len(b_call.probes) :
               0 <= b_call.probes[k] /\ b_call.probes[k] < Len(SearchElems)
        /\ (\A k \in 1..Len(SearchElems) : b_cmp[SearchElems[k]] # "Equal")
               => b_call.ret = None
        /\ b_call.ret # None =>
               /\ b_call.ret.val[1] \in 0..(Len(SearchElems) - 1)
               /\ b_call.ret.val[2] = SearchElems[b_call.ret.val[1] + 1]
               /\ b_cmp[b_call.ret.val[2]] = "Equal"

\* C14 happens: an unsorted array with a trailing partial element was searched
\* with a comparator that is no order, and an element was found
SearchSafeWitness ==
    /\ SearchDone
    /\ b_tag = -1
    /\ Len(b_buffer) = 2 * MaxElems + 1
    /\ SearchElems[1] > SearchElems[2]
    /\ b_cmp[1] = "Equal" /\ b_cmp[2] = "Less"
    /\ b_call.ret # None

----------------------------------------------------------------------------
(* table.rs: TableDirectory and Table.  A u32 (a tag, an offset, a length)   *)
(* is kept as the pair <<high 16 bits, low 16 bits>>.                        *)

MaxRecords == 2       \* most table records of a generated directory

U32ToBe(v) == U16ToBe(v[1]) \o U16ToBe(v[2])

\* a < b, a = b or a > b as u32 or usize values
WideCmp(a, b) ==
    IF a[1] # b[1] THEN Cmp(a[1], b[1]) ELSE Cmp(a[2], b[2])

\* check_sfnt_version accepts these two
TRUETYPE == <<1, 0>>
CFF == <<20308, 21583>>

\* TableRecord::SIZE and the bytes TableDirectory::parse reads before the records
TableRecordSize == 4 * 4
DirectoryHeaderSize == 12

\* <TableRecord as FromData>::parse
TableRecord_parse(b) ==
    [tableTag |-> U32FromBe(SubSeq(b, 1, 4)),
     checksum |-> U32FromBe(SubSeq(b, 5, 8)),
     offset |-> U32FromBe(SubSeq(b, 9, 12)),
     length |-> U32FromBe(SubSeq(b, 13, 16))]

\* TableDirectory::parse: Some(directory), None, or Panic when the assertion
\* of check_sfnt_version fails
TableDirectory_parse(data) ==
    LET sfnt_version == read_bytes(data, 0, 4)
    IN  IF sfnt_version.ret = None THEN None
        ELSE IF U32FromBe(sfnt_version.ret.val) \notin {TRUETYPE, CFF} THEN Panic
        ELSE
        LET fields == read_seq(<<"u16", "u16", "u16", "u16">>, data, sfnt_version.offset)
        IN  IF fields.ret = None THEN None
            ELSE
            LET num_tables == fields.ret.val[1]
                bytes == read_bytes(data, fields.offset, num_tables * TableRecordSize)
            IN  IF bytes.ret = None THEN None
                ELSE Some([sfntVersion |-> U32FromBe(sfnt_version.ret.val),
                           numTables |-> num_tables,
                           tableRecords |->
                               [k \in 1..num_tables |->
                                   TableRecord_parse(SubSeq(bytes.ret.val,
                                       (k - 1) * TableRecordSize + 1, k * TableRecordSize))]])

\* Table::new
Table_new(data) == TableDirectory_parse(data)

\* are the records in ascending tag order (duplicates allowed)
SortedByTag(records) ==
    \A i, j \in 1..Len(records) :
        i < j => WideCmp(records[i].tableTag, records[j].tableTag) # "Greater"

\* <[TableRecord]>::binary_search_by(|record| record.tableTag.cmp(tag)).ok():
\* the indices (from 0) it can return.  On a sorted slice: an index whose
\* record has the tag, None when there is none; on an unsorted slice the
\* result is unspecified, but an index returned is one whose record compared
\* Equal.
binary_search_by_tag(records, tag) ==
    LET hits == {i \in 0..(Len(records) - 1) : records[i + 1].tableTag = tag}
    IN  IF SortedByTag(records)
        THEN (IF hits = {} THEN {None} ELSE {Some(i) : i \in hits})
        ELSE {None} \cup {Some(i) : i \in hits}

\* Table::get_table_record, the search having returned index
get_table_record(table, index) ==
    IF index = None THEN None ELSE Some(table.tableRecords[index.val + 1])

\* usize::checked_add of two u32 values as usize
checked_add(a, b, usize_bits) ==
    LET lo == a[2] + b[2]
        hi == a[1] + b[1] + (lo \div 65536)
    IN  IF usize_bits = 32 /\ hi >= 65536 THEN None
        ELSE Some(<<hi, lo % 65536>>)

\* get_table_data giving the bytes up to the end of the file when the record
\* reaches past it
get_table_data_clamped(data, table_record, usize_bits) ==
    IF table_record = None THEN None
    ELSE
    LET offset == table_record.val.offset
        end == checked_add(offset, table_record.val.length, usize_bits)
    IN  IF end = None THEN None
        ELSE IF WideCmp(offset, <<0, Len(data)>>) = "Greater" THEN None
        ELSE IF WideCmp(end.val, <<0, Len(data)>>) = "Greater"
             THEN Some(Slice(data, offset[2], Len(data)))
             ELSE Some(Slice(data, offset[2], end.val[2]))

\* Table::get_table_data, get_table_record having returned table_record
get_table_data(data, table_record, usize_bits) ==
    IF table_record = None THEN None
    ELSE
    LET offset == table_record.val.offset
        end == checked_add(offset, table_record.val.length, usize_bits)
    IN  IF end = None THEN None
        ELSE IF /\ WideCmp(offset, end.val) # "Greater"
                /\ WideCmp(end.val, <<0, Len(data)>>) # "Greater"
             THEN Some(Slice(data, offset[2], end.val[2]))
             ELSE None

\* the tags of generated records and of lookups, the places a record points
\* to (the first byte after the directory, two bytes on, 0xFFFFFFFE) and the
\* lengths it claims
RecordTagVals == {<<0, 1>>, <<0, 2>>, <<1, 0>>}
RecordOffsetVals == {"start", "mid", "huge"}
RecordLengthVals == {<<0, 2>>, <<0, 3>>, <<65535, 65535>>}
Payload == <<201, 202, 203, 204>>

RecordOffset(place, start) ==
    CASE place = "start" -> <<0, start>>
      [] place = "mid" -> <<0, start + 2>>
      [] place = "huge" -> <<65535, 65534>>

RECURSIVE RecordsBytes(_, _, _)
RecordsBytes(recs, j, start) ==
    IF j > Len(recs) THEN <<>>
    ELSE U32ToBe(recs[j].tag) \o <<0, 0, 0, 0>>
         \o U32ToBe(RecordOffset(recs[j].place, start)) \o U32ToBe(recs[j].length)
         \o RecordsBytes(recs, j + 1, start)

\* a font file: the directory header, numTables, the records, four bytes of
\* table data
FileBytes(sfnt, numTables, recs) ==
    U32ToBe(sfnt) \o U16ToBe(numTables) \o <<0, 0, 0, 0, 0, 0>>
    \o RecordsBytes(recs, 1, DirectoryHeaderSize + TableRecordSize * Len(recs))
    \o Payload

RecordInputs ==
    [tag : RecordTagVals, place : RecordOffsetVals, length : RecordLengthVals]

\* files with 0..MaxRecords records in any order; a file whose numTables
\* claims more records than it has; a file of another sfnt version; a file
\* that ends inside the directory header
FileInputs ==
    {FileBytes(TRUETYPE, Len(recs), recs) : recs \in SeqsUpTo(RecordInputs, MaxRecords)}
    \cup {FileBytes(CFF, 1, <<[tag |-> <<0, 1>>, place |-> "start", length |-> <<0, 2>>]>>),
          FileBytes(TRUETYPE, 3, <<>>),
          FileBytes(<<0, 2>>, 0, <<>>),
          <<0, 1, 0, 0, 0, 0>>}

TableInit ==
    /\ t_file \in FileInputs
    /\ t_table = Table_new(t_file)
    /\ t_usize_bits \in {32, 64}
    /\ t_call = Fresh

TableIdle ==
    /\ t_file = <<>>
    /\ t_table = None
    /\ t_usize_bits = 64
    /\ t_call = Fresh

\* Table::get_table_record(tag)
GetTableRecord ==
    /\ t_table.tag = "Some"
    /\ \E tag \in RecordTagVals \cup {<<0, 3>>} :
       \E index \in binary_search_by_tag(t_table.val.tableRecords, tag) :
           t_call' = [op |-> "get_table_record", tag |-> tag, index |-> index,
                      ret |-> get_table_record(t_table.val, index)]
    /\ UNCHANGED <<t_file, t_table, t_usize_bits, tableOthers>>

\* Table::get_table_data(tag)
GetTableData ==
    /\ t_table.tag = "Some"
    /\ \E tag \in RecordTagVals \cup {<<0, 3>>} :
       \E index \in binary_search_by_tag(t_table.val.tableRecords, tag) :
           t_call' = [op |-> "get_table_data", tag |-> tag, index |-> index,
                      ret |-> get_table_data(t_file,
                                  get_table_record(t_table.val, index), t_usize_bits)]
    /\ UNCHANGED <<t_file, t_table, t_usize_bits, tableOthers>>

TableNext ==
    \/ GetTableRecord
    \/ GetTableData

TableCalled(op) == t_call # Fresh /\ t_call.op = op

\* offset + length <= file length, for the record the call looked at
RecordInFile(r) ==
    LET lo == r.offset[2] + r.length[2]
    IN  /\ r.offset[1] = 0
        /\ r.length[1] = 0
        /\ lo <= Len(t_file)

\* C15: get_table_data(tag) returns a slice only if a record with that tag
\* exists and offset + length <= file length, the slice is then exactly
\* file[offset, offset + length), and a record reaching past the file (or
\* overflowing) gives None, never a panic.
TableDataInFile ==
    TableCalled("get_table_data") =>
        LET records == t_table.val.tableRecords
        IN  /\ t_call.ret # Panic
            /\ t_call.ret # None =>
                   /\ t_call.index # None
                   /\ records[t_call.index.val + 1].tableTag = t_call.tag
                   /\ RecordInFile(records[t_call.index.val + 1])
                   /\ t_call.ret.val =
                          [k \in 1..records[t_call.index.val + 1].length[2] |->
                              t_file[records[t_call.index.val + 1].offset[2] + k]]
            /\ (t_call.index # None /\ ~RecordInFile(records[t_call.index.val + 1]))
                   => t_call.ret = None

\* C15 happens: a record inside the file gave its bytes
TableDataWitness ==
    /\ TableCalled("get_table_data")
    /\ t_call.ret = Some(<<203, 204>>)

\* C15 happens too: a record whose offset + length overflows 32 bits gave None
TableDataOverflowWitness ==
    /\ TableCalled("get_table_data")
    /\ t_usize_bits = 32
    /\ t_call.index # None
    /\ t_table.val.tableRecords[t_call.index.val + 1].offset = <<65535, 65534>>
    /\ t_call.ret = None

----------------------------------------------------------------------------
(* Lookup by tag: LazyArray::binary_search_by with a tag comparator, and    *)
(* Table::get_table_record *)

StrictlyByTag(records) ==
    \A i, j \in 1..Len(records) :
        i < j => WideCmp(records[i].tableTag, records[j].tableTag) = "Less"

\* C13: on records in strictly ascending tag order, lookup by tag returns the
\* index i of the record with records[i].tag = t when there is one, and None
\* when there is none.
LookupByTag ==
    /\ (SearchDone /\ b_tag # -1 /\ StrictlyIncreasing(SearchElems)) =>
           /\ \A k \in 1..Len(SearchElems) :
                  SearchElems[k] = b_tag => b_call.ret = Some(<<k - 1, b_tag>>)
           /\ (\A k \in 1..Len(SearchElems) : SearchElems[k] # b_tag)
                  => b_call.ret = None
    /\ (TableCalled("get_table_record") /\ StrictlyByTag(t_table.val.tableRecords)) =>
           LET records == t_table.val.tableRecords
           IN  /\ \A k \in 1..Len(records) :
                      records[k].tableTag = t_call.tag =>
                          /\ t_call.index = Some(k - 1)
                          /\ t_call.ret = Some(records[k])
               /\ (\A k \in 1..Len(records) : records[k].tableTag # t_call.tag)
                      => t_call.ret = None

\* C13 happens: the last of three sorted tags was looked up and found
LookupByTagWitness ==
    /\ SearchDone
    /\ SearchElems = <<2, 3, 260>>
    /\ b_tag = 260
    /\ b_call.ret = Some(<<2, 260>>)

\* C13 happens in a table directory: the second of two sorted records was found
LookupRecordWitness ==
    /\ TableCalled("get_table_record")
    /\ Len(t_table.val.tableRecords) = 2
    /\ StrictlyByTag(t_table.val.tableRecords)
    /\ t_call.index = Some(1)

----------------------------------------------------------------------------
(* morx.rs: MorxTable::parse, Chain::parse and MorxSubtable::parse.  The     *)
(* u32 fields of the generated tables stay below 2^31.                       *)

MaxChains == 2        \* most chains of a generated table
MaxSubtables == 2     \* most subtables of a generated chain

\* a u32 as usize
as_usize(v) == v[1] * 65536 + v[2]

\* MorxHeader::SIZE, ChainHeader::SIZE, FeatureTable::SIZE, MorxSubtableHeader::SIZE
MorxHeaderSize == (2 * 2) + 4
ChainHeaderSize == 4 * 4
FeatureTableSize == (2 * 2) + (4 * 2)
MorxSubtableHeaderSize == 4 * 3

\* <MorxHeader as FromData>::parse on its eight bytes: the three assertions
\* panic
MorxHeader_parse(data) ==
    LET version == U16FromBe(SubSeq(data, 1, 2))
        unused == U16FromBe(SubSeq(data, 3, 4))
        nChains == as_usize(U32FromBe(SubSeq(data, 5, 8)))
    IN  IF version \notin {2, 3} THEN Panic
        ELSE IF unused # 0 THEN Panic
        ELSE IF ~(nChains > 0) THEN Panic
        ELSE Some([version |-> version, unused |-> unused, nChains |-> nChains])

\* <ChainHeader as FromData>::parse on its sixteen bytes: the three assertions
\* panic
ChainHeader_parse(data) ==
    LET chainLength == as_usize(U32FromBe(SubSeq(data, 5, 8)))
        nFeatureEntries == as_usize(U32FromBe(SubSeq(data, 9, 12)))
        nSubtables == as_usize(U32FromBe(SubSeq(data, 13, 16)))
    IN  IF chainLength % 4 # 0 THEN Panic
        ELSE IF ~(nFeatureEntries > 0) THEN Panic
        ELSE IF ~(nSubtables > 0) THEN Panic
        ELSE Some([chainLength |-> chainLength, nFeatureEntries |-> nFeatureEntries,
                   nSubtables |-> nSubtables])

\* <MorxSubtableHeader as FromData>::parse on its twelve bytes
MorxSubtableHeader_parse(data) ==
    [length |-> as_usize(U32FromBe(SubSeq(data, 1, 4))),
     coverage |-> U32FromBe(SubSeq(data, 5, 8))]

\* MorxSubtableHeader::get_type: coverage & 0xFF picks the type, any other
\* value panics
get_type(coverage) ==
    LET low == coverage[2] % 256
    IN  CASE low = 0 -> Some("Rearrangement")
          [] low = 1 -> Some("Contextual")
          [] low = 2 -> Some("Ligature")
          [] low = 4 -> Some("Noncontextual")
          [] low = 5 -> Some("Insertion")
          [] OTHER -> Panic

\* header.length as usize - MorxSubtableHeader::SIZE: below zero it panics
\* when overflows are checked and wraps around when they are not (the wrapped
\* value is kept as the negative number it is congruent to)
payload_len(length, overflow_checks) ==
    IF length - MorxSubtableHeaderSize < 0 /\ overflow_checks THEN Panic
    ELSE Some(length - MorxSubtableHeaderSize)

\* MorxSubtable::parse on the chain's stream (data, offset): the result, the
\* new cursor and the header read.  outcome is what the parser of the type's
\* payload (MorxSubtableRearrangement::parse, ...) returns for (header, data).
MorxSubtable_parse(data, offset, outcome, overflow_checks) ==
    LET bytes == read_bytes(data, offset, MorxSubtableHeaderSize)
    IN  IF bytes.ret = None
        THEN [ret |-> None, offset |-> bytes.offset, header |-> None]
        ELSE
        LET header == MorxSubtableHeader_parse(bytes.ret.val)
            len == payload_len(header.length, overflow_checks)
        IN  IF len = Panic
            THEN [ret |-> Panic, offset |-> bytes.offset, header |-> Some(header)]
            ELSE
            LET payload == read_bytes(data, bytes.offset, len.val)
            IN  IF payload.ret = None
                THEN [ret |-> None, offset |-> payload.offset, header |-> Some(header)]
                ELSE IF get_type(header.coverage) = Panic
                THEN [ret |-> Panic, offset |-> payload.offset, header |-> Some(header)]
                ELSE [ret |-> IF outcome = "Some"
                              THEN Some(get_type(header.coverage).val)
                              ELSE IF outcome = "None" THEN None ELSE Panic,
                      offset |-> payload.offset, header |-> Some(header)]

NoChain ==
    [begun |-> FALSE, start |-> 0, chainLength |-> 0, data |-> <<>>, offset |-> 0,
     features_left |-> 0, subtables_left |-> 0]

\* MorxTable::parse ends with this result
MorxDone(ret) ==
    /\ h_ret' = ret
    /\ h_pc' = "done"

\* MorxTable::parse up to the loop over the chains: the header is read
ParseMorxHeader ==
    /\ h_pc = "table"
    /\ LET bytes == read_bytes(h_data, h_offset, MorxHeaderSize)
           header == MorxHeader_parse(bytes.ret.val)
       IN  /\ h_offset' = bytes.offset
           /\ IF bytes.ret = None THEN MorxDone(None) /\ UNCHANGED h_chains_left
              ELSE IF header = Panic THEN MorxDone(Panic) /\ UNCHANGED h_chains_left
              ELSE /\ h_pc' = "chain"
                   /\ h_chains_left' = header.val.nChains
                   /\ UNCHANGED h_ret
    /\ UNCHANGED <<h_data, h_overflow_checks, h_outcome, h_chain, h_ended, h_sub,
                   chainOthers>>

\* Chain::parse up to its loops: the header is read at the cursor, the cursor
\* is set back and chainLength bytes are taken for the chain's own stream
ChainBegin ==
    /\ h_pc = "chain"
    /\ h_chains_left > 0
    /\ LET start == h_offset
           bytes == read_bytes(h_data, start, ChainHeaderSize)
           header == ChainHeader_parse(bytes.ret.val)
           seen == [NoChain EXCEPT !.begun = TRUE, !.start = start,
                       !.chainLength = as_usize(U32FromBe(SubSeq(bytes.ret.val, 5, 8)))]
           data == read_bytes(h_data, start, header.val.chainLength)
       IN  IF bytes.ret = None
           THEN MorxDone(None) /\ h_offset' = bytes.offset /\ UNCHANGED h_chain
           ELSE IF header = Panic
           THEN MorxDone(Panic) /\ h_offset' = bytes.offset /\ h_chain' = seen
           ELSE IF data.ret = None
           THEN MorxDone(None) /\ h_offset' = data.offset /\ h_chain' = seen
           ELSE /\ h_offset' = data.offset
                /\ h_chain' = [seen EXCEPT !.data = data.ret.val,
                                  !.offset = ChainHeaderSize,
                                  !.features_left = header.val.nFeatureEntries,
                                  !.subtables_left = header.val.nSubtables]
                /\ h_pc' = "features"
                /\ UNCHANGED h_ret
    /\ UNCHANGED <<h_data, h_overflow_checks, h_outcome, h_chains_left, h_ended, h_sub,
                   chainOthers>>

\* one turn of the loop over the feature entries: s.read::<FeatureTable>()?
FeatureRead ==
    /\ h_pc = "features"
    /\ LET r == read_bytes(h_chain.data, h_chain.offset, FeatureTableSize)
       IN  IF r.ret = None
           THEN /\ MorxDone(None)
                /\ h_chain' = [h_chain EXCEPT !.offset = r.offset]
           ELSE /\ h_chain' = [h_chain EXCEPT !.offset = r.offset,
                                  !.features_left = h_chain.features_left - 1]
                /\ h_pc' = IF h_chain.features_left = 1 THEN "subtables" ELSE "features"
                /\ UNCHANGED h_ret
    /\ UNCHANGED <<h_data, h_overflow_checks, h_outcome, h_offset, h_chains_left,
                   h_ended, h_sub, chainOthers>>

\* one turn of the loop over the subtables: MorxSubtable::parse(&mut s)?; after
\* the last turn Chain::parse returns and the loop over the chains goes on
SubtableParse ==
    /\ h_pc = "subtables"
    /\ LET r == MorxSubtable_parse(h_chain.data, h_chain.offset, h_outcome,
                                   h_overflow_checks)
       IN  /\ h_sub' = [before |-> h_chain.offset, after |-> r.offset,
                        header |-> r.header, ret |-> r.ret,
                        remaining |-> Len(h_chain.data) - h_chain.offset]
           /\ IF r.ret.tag # "Some"
              THEN /\ MorxDone(r.ret)
                   /\ h_chain' = [h_chain EXCEPT !.offset = r.offset]
                   /\ UNCHANGED <<h_chains_left, h_ended>>
              ELSE /\ h_chain' = [h_chain EXCEPT !.offset = r.offset,
                                     !.subtables_left = h_chain.subtables_left - 1]
                   /\ UNCHANGED h_ret
                   /\ IF h_chain.subtables_left = 1
                      THEN /\ h_pc' = "chain"
                           /\ h_chains_left' = h_chains_left - 1
                           /\ h_ended' = Append(h_ended,
                                  [start |-> h_chain.start,
                                   chainLength |-> h_chain.chainLength,
                                   consumed |-> r.offset,
                                   cursor |-> h_offset])
                      ELSE /\ h_pc' = "subtables"
                           /\ UNCHANGED <<h_chains_left, h_ended>>
    /\ UNCHANGED <<h_data, h_overflow_checks, h_outcome, h_offset, chainOthers>>

\* the loop over the chains is over: MorxTable::parse returns the table
FinishTable ==
    /\ h_pc = "chain"
    /\ h_chains_left = 0
    /\ MorxDone(Some(Len(h_ended)))
    /\ UNCHANGED <<h_data, h_overflow_checks, h_outcome, h_offset, h_chains_left,
                   h_chain, h_ended, h_sub, chainOthers>>

ChainNext ==
    \/ ParseMorxHeader
    \/ ChainBegin
    \/ FeatureRead
    \/ SubtableParse
    \/ FinishTable

\* u32::to_be_bytes of a value below 2^31, to build inputs
U32IntToBe(v) == <<v \div 16777216, (v \div 65536) % 256, (v \div 256) % 256, v % 256>>

\* a length far past any generated table: 0x7FFFFF00, and 0x7FFFFF02 which is
\* no multiple of 4
HugeLength == (32767 * 65536) + 65280
OddHugeLength == HugeLength + 2

\* the four bytes of payload of every generated subtable
SubtablePayload == <<9, 9, 9, 9>>

SubtableLengthKinds == {"exact", "header", "under", "zero", "over", "huge"}

\* the length field of a generated subtable whose bytes are 12 + 4 long
SubtableLength(kind) ==
    CASE kind = "exact" -> MorxSubtableHeaderSize + Len(SubtablePayload)
      [] kind = "header" -> MorxSubtableHeaderSize
      [] kind = "under" -> MorxSubtableHeaderSize - 4
      [] kind = "zero" -> 0
      [] kind = "over" -> MorxSubtableHeaderSize + Len(SubtablePayload) + 8
      [] kind = "huge" -> HugeLength

\* coverage fields: every type, low bytes that are no type (3, 6, 255), and
\* upper bits set over type 0 (0x100), type 4 (0x20000004) and no type (0x103)
CoverageVals == {0, 1, 2, 3, 4, 5, 6, 255, 256, 259, 536870916}

SubtableInputs == [length : SubtableLengthKinds, coverage : CoverageVals]

GoodSubtable == [length |-> "exact", coverage |-> 0]

SubtableBytes(sub) ==
    U32IntToBe(SubtableLength(sub.length)) \o U32IntToBe(sub.coverage)
    \o <<0, 0, 0, 1>> \o SubtablePayload

RECURSIVE SubtablesBytes(_)
SubtablesBytes(subs) ==
    IF Len(subs) = 0 THEN <<>>
    ELSE SubtableBytes(Head(subs)) \o SubtablesBytes(Tail(subs))

FeatureBytes == <<0, 1, 0, 2, 0, 0, 0, 1, 0, 0, 0, 0>>

ChainLengthKinds == {"exact", "padded", "short", "tiny", "huge", "oddhuge"}

\* a chain: its header, one feature entry, its subtables; "padded" chains end
\* with four bytes no subtable owns
ChainBytes(chain) ==
    LET body == FeatureBytes \o SubtablesBytes(chain.subs)
                \o (IF chain.length = "padded" THEN <<7, 7, 7, 7>> ELSE <<>>)
        actual == ChainHeaderSize + Len(body)
        chainLength == CASE chain.length \in {"exact", "padded"} -> actual
                         [] chain.length = "short" -> actual - 4
                         [] chain.length = "tiny" -> 8
                         [] chain.length = "huge" -> HugeLength
                         [] chain.length = "oddhuge" -> OddHugeLength
    IN  <<0, 0, 0, 1>> \o U32IntToBe(chainLength) \o U32IntToBe(chain.nFeatureEntries)
        \o U32IntToBe(chain.nSubtables) \o body

RECURSIVE ChainsBytes(_)
ChainsBytes(chains) ==
    IF Len(chains) = 0 THEN <<>>
    ELSE ChainBytes(Head(chains)) \o ChainsBytes(Tail(chains))

MorxTableBytes(version, unused, nChains, chains) ==
    U16ToBe(version) \o U16ToBe(unused) \o U32IntToBe(nChains) \o ChainsBytes(chains)

PlainChain(kind) ==
    [length |-> kind, nFeatureEntries |-> 1, nSubtables |-> 1, subs |-> <<GoodSubtable>>]

\* tables of 1..MaxChains chains of every length kind
ChainFamily ==
    {MorxTableBytes(2, 0, Len(kinds), [k \in 1..Len(kinds) |-> PlainChain(kinds[k])]) :
        kinds \in SeqsUpTo(ChainLengthKinds, MaxChains) \ {<<>>}}

\* tables of one chain whose last subtable has any length field and coverage
SubtableFamily ==
    {MorxTableBytes(3, 0, 1,
        <<[length |-> kind, nFeatureEntries |-> 1, nSubtables |-> n + 1,
           subs |-> Copies(GoodSubtable, n) \o <<sub>>]>>) :
        kind \in {"exact", "padded"}, n \in 0..(MaxSubtables - 1), sub \in SubtableInputs}

\* tables whose headers break an assertion or count more than there is
HeaderFamily ==
    {MorxTableBytes(version, unused, nChains, <<PlainChain("exact")>>) :
        version \in {1, 2, 3}, unused \in {0, 1}, nChains \in {0, 1, 2}}
    \cup {MorxTableBytes(2, 0, 1,
              <<[length |-> "exact", nFeatureEntries |-> nf, nSubtables |-> ns,
                 subs |-> <<GoodSubtable>>]>>) : nf \in {0, 1, 2}, ns \in {0, 1, 2}}
    \cup {<<0, 2, 0>>}

MorxTableInputs == ChainFamily \cup SubtableFamily \cup HeaderFamily

ChainInit ==
    /\ h_data \in MorxTableInputs
    /\ h_overflow_checks \in BOOLEAN
    /\ h_outcome \in {"Some", "None", "Panic"}
    /\ h_pc = "table"
    /\ h_offset = 0
    /\ h_chains_left = 0
    /\ h_chain = NoChain
    /\ h_ended = <<>>
    /\ h_sub = Fresh
    /\ h_ret = Fresh

ChainIdle ==
    /\ h_data = <<>>
    /\ h_overflow_checks = FALSE
    /\ h_outcome = "Some"
    /\ h_pc = "idle"
    /\ h_offset = 0
    /\ h_chains_left = 0
    /\ h_chain = NoChain
    /\ h_ended = <<>>
    /\ h_sub = Fresh
    /\ h_ret = Fresh

\* C17: after a chain is parsed the cursor over the table is at the chain's
\* start + chainLength, whatever its features and subtables consumed; the next
\* chain is read from there; and a chain whose chainLength passes the end of
\* the table makes the whole parse fail.
ChainCursorAdvance ==
    /\ \A k \in 1..Len(h_ended) :
           /\ h_ended[k].cursor = h_ended[k].start + h_ended[k].chainLength
           /\ k > 1 => h_ended[k].start = h_ended[k - 1].cursor
    /\ (h_chain.begun /\ Len(h_ended) > 0 /\ h_pc \in {"features", "subtables"})
           => h_chain.start = h_ended[Len(h_ended)].cursor
    /\ (h_chain.begun /\ h_chain.start + h_chain.chainLength > Len(h_data))
           => h_ret = None

\* C18: MorxSubtable::parse takes header.length - 12 bytes of payload, so on
\* success the chain's stream has advanced by header.length; a header.length
\* below 12 or past the bytes left in the chain gives None, no panic.
SubtablePayloadLength ==
    (h_sub # Fresh /\ h_sub.header # None) =>
        /\ h_sub.ret.tag = "Some" =>
               h_sub.after = h_sub.before + h_sub.header.val.length
        /\ (\/ h_sub.header.val.length < MorxSubtableHeaderSize
            \/ h_sub.header.val.length > h_sub.remaining)
               => h_sub.ret = None

\* C19: the low byte of coverage picks the variant, the upper bits do not
\* matter, and any other low byte is a decode failure, never a panic.
SubtableTypeByLowByte ==
    (/\ h_sub # Fresh
     /\ h_sub.header # None
     /\ h_sub.header.val.length >= MorxSubtableHeaderSize
     /\ h_sub.header.val.length <= h_sub.remaining) =>
        LET low == h_sub.header.val.coverage[2] % 256
        IN  /\ (low \in {0, 1, 2, 4, 5} /\ h_outcome = "Some") =>
                   h_sub.ret = Some(CASE low = 0 -> "Rearrangement"
                                      [] low = 1 -> "Contextual"
                                      [] low = 2 -> "Ligature"
                                      [] low = 4 -> "Noncontextual"
                                      [] low = 5 -> "Insertion")
            /\ low \notin {0, 1, 2, 4, 5} => h_sub.ret = None

(***************************************************************************)
(* cmap format 4 subtable decoding: CmapSubtableFormat4::parse             *)
(* (src/src/cmap.rs)                                                       *)
(***************************************************************************)

\* byte offset of endCode: the seven uint16 fields read before it
Format4HeaderSize == 7 * 2

\* LazyArray::<u16>::last of the array over buffer
lazy_last(buffer) ==
    IF lazy_len(buffer) # 0 THEN lazy_array_get(buffer, lazy_len(buffer) - 1) ELSE None

\* CmapSubtableFormat4::parse: None where a `?` returns, Panic where unwrap
\* or assert_eq! fails, otherwise the decoded fields.  The result of set_len
\* is dropped by the code, so a length past the data leaves the region as
\* it was.
CmapSubtableFormat4_parse(data) ==
    LET format == read("u16", data, 0)
        length == read("u16", data, format.offset)
        s == set_len(data, IF length.ret = None THEN 0 ELSE length.ret.val).data
        language == read("u16", s, length.offset)
        segCountX2 == read("u16", s, language.offset)
        count == (IF segCountX2.ret = None THEN 0 ELSE segCountX2.ret.val) \div 2
        searchRange == read("u16", s, segCountX2.offset)
        entrySelector == read("u16", s, searchRange.offset)
        rangeShift == read("u16", s, entrySelector.offset)
        ends == read_array("u16", s, rangeShift.offset, count)
        reservedPad == read("u16", s, ends.offset)
        starts == read_array("u16", s, reservedPad.offset, count)
        deltas == read_array("i16", s, starts.offset, count)
        rangeOffsets == read_array("u16", s, deltas.offset, count)
        tail == get_tail(s, rangeOffsets.offset)
    IN  IF format.ret = None THEN None
        ELSE IF length.ret = None THEN None
        ELSE IF language.ret = None THEN None
        ELSE IF segCountX2.ret = None THEN None
        ELSE IF searchRange.ret = None THEN None
        ELSE IF entrySelector.ret = None THEN None
        ELSE IF rangeShift.ret = None THEN None
        ELSE IF ends.ret = None THEN None
        ELSE IF lazy_last(ends.ret.val) = None THEN Panic
        ELSE IF lazy_last(ends.ret.val).val # 65535 THEN Panic
        ELSE IF reservedPad.ret = None THEN None
        ELSE IF reservedPad.ret.val # 0 THEN Panic
        ELSE IF starts.ret = None THEN None
        ELSE IF deltas.ret = None THEN None
        ELSE IF rangeOffsets.ret = None THEN None
        ELSE IF tail = None THEN None
        ELSE Some([format |-> format.ret.val, length |-> length.ret.val,
                   segCountX2 |-> segCountX2.ret.val,
                   endCode |-> ends.ret.val, reservedPad |-> reservedPad.ret.val,
                   startCode |-> starts.ret.val, idDelta |-> deltas.ret.val,
                   idRangeOffsets |-> rangeOffsets.ret.val,
                   glyphIdArray |-> tail.val])

\* ---- inputs ----
LastEndVals == {65535, 66}
PadVals == {0, 1}
LengthKinds == {"exact", "zero", "pad", "long"}

\* n uint16 values v, big-endian
Repeat16(v, n) == [k \in 1..(2 * n) |-> U16ToBe(v)[2 - (k % 2)]]

\* the subtable of n segments whose last endCode is last and whose
\* reservedPad is pad, with gids glyph ids, the length field left zero
Format4Body(n, last, pad, gids) ==
    <<0, 4, 0, 0, 0, 0>> \o U16ToBe(2 * n) \o <<0, 0, 0, 0, 0, 0>>
        \o (IF n = 0 THEN <<>> ELSE Repeat16(65, n - 1) \o U16ToBe(last))
        \o U16ToBe(pad) \o Repeat16(65, n) \o Repeat16(1, n) \o Repeat16(0, n)
        \o Repeat16(7, gids)

\* the value of the length field: the subtable's size, zero, the bytes up
\* to reservedPad, or more than the subtable holds
Format4Length(kind, n, body) ==
    CASE kind = "exact" -> Len(body)
      [] kind = "zero" -> 0
      [] kind = "pad" -> Format4HeaderSize + 2 * n
      [] kind = "long" -> Len(body) + 2

Format4Bytes(n, last, pad, gids, kind) ==
    LET body == Format4Body(n, last, pad, gids)
        len == U16ToBe(Format4Length(kind, n, body))
    IN  [k \in 1..Len(body) |-> IF k = 3 THEN len[1] ELSE IF k = 4 THEN len[2] ELSE body[k]]

\* whole subtables and the same with up to MaxCut bytes missing at the end
Format4Inputs ==
    {SubSeq(Format4Bytes(n, last, pad, gids, kind), 1,
            Len(Format4Bytes(n, last, pad, gids, kind)) - cut) :
        n \in 0..MaxSegs, last \in LastEndVals, pad \in PadVals,
        gids \in 0..1, kind \in LengthKinds, cut \in 0..MaxCut}

Format4Init ==
    /\ f_data \in Format4Inputs
    /\ f_ret = Fresh

Format4Idle ==
    /\ f_data = <<>>
    /\ f_ret = None

\* one call of CmapSubtableFormat4::parse
Format4Parse ==
    /\ f_ret = Fresh
    /\ f_ret' = CmapSubtableFormat4_parse(f_data)
    /\ UNCHANGED <<f_data, format4Others>>

Format4Next == Format4Parse

\* the uint16 at byte offset at of the bytes
Format4Field(data, at) == U16FromBe(SubSeq(data, at + 1, at + 2))

\* the subtable names its segment count and breaks one of the invariants:
\* no segment, a last endCode that is held and is not 0xFFFF, or a
\* reservedPad that is held and is not 0
Format4Violation(data) ==
    /\ Len(data) >= 8
    /\ LET n == Format4Field(data, 6) \div 2
       IN  \/ n = 0
           \/ /\ Len(data) >= Format4HeaderSize + 2 * n
              /\ Format4Field(data, Format4HeaderSize + 2 * (n - 1)) # 65535
           \/ /\ Len(data) >= Format4HeaderSize + 2 * n + 2
              /\ Format4Field(data, Format4HeaderSize + 2 * n) # 0

\* C20: after CmapSubtableFormat4::parse on a subtable that breaks a
\* structural invariant (segCount = 0, last endCode # 0xFFFF, or
\* reservedPad # 0), the outcome is the decode failure None; the process is
\* never terminated by a panic
Format4ViolationFails ==
    (f_ret # Fresh /\ Format4Violation(f_data)) => f_ret = None

(***************************************************************************)
(* morx.rs: make_rank on its own                                           *)
(***************************************************************************)

MaxRankLen == 3       \* most values handed to make_rank

RankVals == {0, 2, 6, 7}

RankInit ==
    /\ r_values \in SeqsUpTo(RankVals, MaxRankLen)
    /\ r_ret = Fresh

RankIdle ==
    /\ r_values = <<>>
    /\ r_ret = None

\* one call of make_rank
MakeRank ==
    /\ r_ret = Fresh
    /\ r_ret' = Some(make_rank(r_values))
    /\ UNCHANGED <<r_values, rankOthers>>

RankNext == MakeRank

\* the number of the values that are strictly smaller than the i-th
SmallerThan(values, i) == Cardinality({j \in 1..Len(values) : values[j] < values[i]})

Distinct(values) == \A i, j \in 1..Len(values) : i # j => values[i] # values[j]

\* C28: make_rank(values)[i] is the number of elements strictly smaller than
\* values[i]; so distinct values get the permutation of 0..n-1 that gives each
\* element's place in ascending order ([6,0,2] gives [2,0,1]), and equal
\* values get equal ranks
RankCountsSmaller ==
    r_ret # Fresh /\ r_ret # None =>
        LET ranks == r_ret.val
        IN  /\ Len(ranks) = Len(r_values)
            /\ \A i \in 1..Len(ranks) : ranks[i] = SmallerThan(r_values, i)
            /\ Distinct(r_values) =>
                   /\ {ranks[i] : i \in 1..Len(ranks)} = 0..(Len(ranks) - 1)
                   /\ \A i, j \in 1..Len(ranks) :
                          (r_values[i] < r_values[j]) <=> (ranks[i] < ranks[j])
            /\ \A i, j \in 1..Len(ranks) :
                   r_values[i] = r_values[j] => ranks[i] = ranks[j]
            /\ r_values = <<6, 0, 2>> => ranks = <<2, 0, 1>>

RankWitness ==
    /\ r_values = <<6, 0, 2>>
    /\ r_ret = Some(<<2, 0, 1>>)

(***************************************************************************)
(* gsub.rs: Lookup::parse                                                  *)
(***************************************************************************)

MaxSubTables == 2     \* most subtable offsets of a generated Lookup

\* the lookupFlag bit that announces the markFilteringSet field
USE_MARK_FILTERING_SET == 16

\* GsubLookupType::new: the variant, or a panic for a type outside 1..=8
GsubLookupType_new(lookup_type) ==
    IF lookup_type \in 1..8 THEN Some(lookup_type) ELSE Panic

\* Lookup::parse: None where a `?` returns, Panic from GsubLookupType::new
Lookup_parse(data) ==
    LET type == read("u16", data, 0)
        lookupFlag == read("u16", data, type.offset)
        subTableCount == read("u16", data, lookupFlag.offset)
        subTableOffsets ==
            read_array("u16", data, subTableCount.offset,
                       IF subTableCount.ret = None THEN 0 ELSE subTableCount.ret.val)
        markFilteringSet == read("u16", data, subTableOffsets.offset)
    IN  IF type.ret = None THEN None
        ELSE IF GsubLookupType_new(type.ret.val) = Panic THEN Panic
        ELSE IF lookupFlag.ret = None THEN None
        ELSE IF subTableCount.ret = None THEN None
        ELSE IF subTableOffsets.ret = None THEN None
        ELSE IF markFilteringSet.ret = None THEN None
        ELSE Some([lookupType |-> GsubLookupType_new(type.ret.val).val,
                   lookupFlag |-> lookupFlag.ret.val,
                   subTableCount |-> subTableCount.ret.val,
                   subTableOffsets |-> U16Array(subTableOffsets.ret.val),
                   markFilteringSet |-> markFilteringSet.ret.val])

\* ---- inputs ----
LookupTypeVals == {1, 8, 9}
LookupFlagVals == {0, 1, 16, 17}
LookupTails == {<<>>, <<0>>, <<0, 5>>, <<0, 5, 0, 6>>}

\* the k-th generated subtable offset
SubTableOffset(k) == 8 + 2 * k

RECURSIVE SubTableOffsetsBytes(_)
SubTableOffsetsBytes(n) ==
    IF n = 0 THEN <<>> ELSE SubTableOffsetsBytes(n - 1) \o U16ToBe(SubTableOffset(n))

\* a Lookup up to the end of its subtable offsets
LookupHead(type, flag, n) ==
    U16ToBe(type) \o U16ToBe(flag) \o U16ToBe(n) \o SubTableOffsetsBytes(n)

GsubInputs ==
    {LookupHead(type, flag, n) \o tail :
        type \in LookupTypeVals, flag \in LookupFlagVals, n \in 0..MaxSubTables,
        tail \in LookupTails}

GsubInit ==
    /\ u_data \in GsubInputs
    /\ u_ret = Fresh

GsubIdle ==
    /\ u_data = <<>>
    /\ u_ret = None

\* one call of Lookup::parse
LookupParse ==
    /\ u_ret = Fresh
    /\ u_ret' = Lookup_parse(u_data)
    /\ UNCHANGED <<u_data, gsubOthers>>

GsubNext == LookupParse

\* the fields of the Lookup the bytes hold
LookupField(data, k) == U16FromBe(SubSeq(data, 2 * k + 1, 2 * k + 2))

\* the bytes hold a Lookup of a known type with all its subtable offsets,
\* and, where the flag announces it, the markFilteringSet
LookupWellFormed(data) ==
    /\ Len(data) >= 6
    /\ LookupField(data, 0) \in 1..8
    /\ Len(data) >= 6 + 2 * LookupField(data, 2)
             + (IF HasBit(LookupField(data, 1), USE_MARK_FILTERING_SET) THEN 2 ELSE 0)

\* C22: Lookup::parse decodes lookupType, lookupFlag, subTableCount and the
\* subTableCount offsets, and reads markFilteringSet only when
\* USE_MARK_FILTERING_SET is set in lookupFlag: a Lookup that holds all the
\* fields its flag announces parses, also when its bytes end right after the
\* subtable offsets and the bit is clear
LookupDecodes ==
    (u_ret # Fresh /\ LookupWellFormed(u_data)) =>
        LET n == LookupField(u_data, 2)
        IN  /\ u_ret.tag = "Some"
            /\ u_ret.val.lookupType = LookupField(u_data, 0)
            /\ u_ret.val.lookupFlag = LookupField(u_data, 1)
            /\ u_ret.val.subTableCount = n
            /\ u_ret.val.subTableOffsets = [k \in 1..n |-> LookupField(u_data, 2 + k)]
            /\ HasBit(u_ret.val.lookupFlag, USE_MARK_FILTERING_SET) =>
                   u_ret.val.markFilteringSet = LookupField(u_data, 3 + n)

(***************************************************************************)
(* decoder.rs: iteration of LazyArray<T> and UnsizedLazyArray<T>           *)
(***************************************************************************)

MaxIterCalls == 6     \* most calls of next on one iterator

\* LazyArray::<T>::len
LazyArray_len(T, buffer) == Len(buffer) \div TypeSize(T)

\* LazyArray::<T>::get
LazyArray_get(T, buffer, index) ==
    IF index < LazyArray_len(T, buffer)
    THEN LET start == index * TypeSize(T)
             end == start + TypeSize(T)
             bytes == slice_get(buffer, start, end)
         IN  IF bytes = None THEN None ELSE FromData_parse(T, bytes.val)
    ELSE None

\* UnsizedLazyArray::len: buffer.len() / data_size, a division that panics
\* when data_size is 0
UnsizedLazyArray_len(buffer, data_size) ==
    IF data_size = 0 THEN Panic ELSE Some(Len(buffer) \div data_size)

\* UnsizedLazyArray::get, the closure parse_data being T::parse
UnsizedLazyArray_get(T, buffer, data_size, index) ==
    LET len == UnsizedLazyArray_len(buffer, data_size)
    IN  IF len = Panic THEN Panic
        ELSE IF index < len.val
        THEN LET start == index * data_size
                 end == start + data_size
                 bytes == slice_get(buffer, start, end)
             IN  IF bytes = None THEN None ELSE FromData_parse(T, bytes.val)
        ELSE None

\* LazyArrayIter::next: the result and the new index
LazyArrayIter_next(T, buffer, index) ==
    IF index >= LazyArray_len(T, buffer)
    THEN [ret |-> None, index |-> index]
    ELSE [ret |-> LazyArray_get(T, buffer, (index + 1) - 1), index |-> index + 1]

\* UnsizedLazyArrayIter::next: the result and the new index
UnsizedLazyArrayIter_next(T, buffer, data_size, index) ==
    LET len == UnsizedLazyArray_len(buffer, data_size)
    IN  IF len = Panic THEN [ret |-> Panic, index |-> index]
        ELSE IF index >= len.val THEN [ret |-> None, index |-> index]
        ELSE [ret |-> UnsizedLazyArray_get(T, buffer, data_size, (index + 1) - 1),
              index |-> index + 1]

\* the buffers iterated: the prefixes of [1,2,3,4], and the long streams
IterBuffers == {SubSeq(<<1, 2, 3, 4>>, 1, n) : n \in 0..4}
                   \cup {LongStream(n) : n \in LongStreamLens}

\* the element types of the LazyArrays, and of the UnsizedLazyArrays, whose
\* closure is T::parse and whose data_size is T::SIZE or, being read from a
\* header field (stat.rs:105-109, fvar.rs:111-115), 0
LazyTypes == {"u8", "u16", "u32", "i64"}
UnsizedTypes == {"u8", "u16", "u32"}

IterArrays ==
    {[kind |-> "LazyArray", T |-> T, buffer |-> b, data_size |-> TypeSize(T)] :
         T \in LazyTypes, b \in IterBuffers}
    \cup {[kind |-> "UnsizedLazyArray", T |-> T, buffer |-> b, data_size |-> d] :
         T \in UnsizedTypes, b \in IterBuffers, d \in {0, 1, 2, 4}}

IterInit ==
    /\ a_array \in {a \in IterArrays :
                       a.kind = "UnsizedLazyArray" => a.data_size \in {0, TypeSize(a.T)}}
    /\ a_index = 0
    /\ a_yield = <<>>

IterIdle ==
    /\ a_array = None
    /\ a_index = 0
    /\ a_yield = <<>>

\* a panic ends the process: no call follows it
IterRunning ==
    /\ a_array # None
    /\ Len(a_yield) < MaxIterCalls
    /\ \A k \in 1..Len(a_yield) : a_yield[k] # Panic

\* one call of LazyArrayIter::next
LazyArrayNext ==
    /\ IterRunning
    /\ a_array.kind = "LazyArray"
    /\ LET r == LazyArrayIter_next(a_array.T, a_array.buffer, a_index)
       IN  /\ a_index' = r.index
           /\ a_yield' = Append(a_yield, r.ret)
    /\ UNCHANGED <<a_array, iterOthers>>

\* one call of UnsizedLazyArrayIter::next
UnsizedLazyArrayNext ==
    /\ IterRunning
    /\ a_array.kind = "UnsizedLazyArray"
    /\ LET r == UnsizedLazyArrayIter_next(a_array.T, a_array.buffer,
                                          a_array.data_size, a_index)
       IN  /\ a_index' = r.index
           /\ a_yield' = Append(a_yield, r.ret)
    /\ UNCHANGED <<a_array, iterOthers>>

IterNext == LazyArrayNext \/ UnsizedLazyArrayNext

\* the k-th element of the region, k from 1: its data_size bytes
IterChunk(a, k) == SubSeq(a.buffer, (k - 1) * a.data_size + 1, k * a.data_size)

\* floor(region length / element size)
IterLen(a) == IF a.data_size = 0 THEN 0 ELSE Len(a.buffer) \div a.data_size

\* C23: the calls of next yield, in index order, exactly
\* floor(region length / element size) decoded big-endian elements and then
\* None on every later call; [1,2,3,4] as u16 yields 0x0102, 0x0304, None
IterYieldsLen ==
    a_array # None =>
        /\ \A k \in 1..Len(a_yield) :
               IF k <= IterLen(a_array)
               THEN /\ a_yield[k].tag = "Some"
                    /\ a_yield[k] = FromData_parse(a_array.T, IterChunk(a_array, k))
               ELSE a_yield[k] = None
        /\ (a_array.buffer = <<1, 2, 3, 4>> /\ a_array.T = "u16" /\ Len(a_yield) >= 3) =>
               SubSeq(a_yield, 1, 3) = <<Some(258), Some(772), None>>

\* the same for the arrays whose element size is not 0 and is the number of
\* bytes the element's parse takes
IterYieldsLenSized ==
    (a_array # None /\ a_array.data_size = IntBytes(IntOf(a_array.T))) => IterYieldsLen

\* the i-th element yielded is get(i) whatever the array
IterYieldsGet ==
    a_array # None =>
        \A k \in 1..Len(a_yield) :
            (k <= IterLen(a_array)) =>
                a_yield[k] = IF a_array.kind = "LazyArray"
                             THEN LazyArray_get(a_array.T, a_array.buffer, k - 1)
                             ELSE FromData_parse(a_array.T, IterChunk(a_array, k))

IterWitness ==
    /\ a_array # None
    /\ a_array.buffer = <<1, 2, 3, 4>>
    /\ a_array.T = "u16"
    /\ a_yield = <<Some(258), Some(772), None, None>>

(***************************************************************************)
(* morx.rs: the new state index of a state-table entry                     *)
(***************************************************************************)

MaxNewState == 24     \* largest newState of an entry
MaxEntryClasses == 5  \* largest nClasses of the subtable

\* RearrangementEntry::get_new_state_index: assert_eq! panics when newState
\* is not a multiple of the size of a state
get_new_state_index(entry, number_of_classes) ==
    IF number_of_classes = 0 THEN Some(0)
    ELSE LET size_of_state == U16Size * number_of_classes
             new_state_byte_offset == entry.newState
         IN  IF new_state_byte_offset % size_of_state # 0 THEN Panic
             ELSE Some(new_state_byte_offset \div size_of_state)

EntryInit ==
    /\ e_entry \in [newState : 0..MaxNewState, flags : {0}]
    /\ e_classes \in 0..MaxEntryClasses
    /\ e_ret = Fresh

EntryIdle ==
    /\ e_entry = None
    /\ e_classes = 0
    /\ e_ret = None

\* one call of get_new_state_index
GetNewStateIndex ==
    /\ e_ret = Fresh
    /\ e_ret' = get_new_state_index(e_entry, e_classes)
    /\ UNCHANGED <<e_entry, e_classes, entryOthers>>

EntryNext == GetNewStateIndex

\* C21: with nClasses > 0 the new state index is newState / (2 * nClasses)
\* when newState is a multiple of 2 * nClasses, and a newState that is not a
\* multiple does not end the process
NewStateIndexOrFailure ==
    (e_ret # Fresh /\ e_entry # None /\ e_classes > 0) =>
        IF e_entry.newState % (2 * e_classes) = 0
        THEN e_ret = Some(e_entry.newState \div (2 * e_classes))
        ELSE e_ret # Panic

\* the first half of it: the index of a newState that is a multiple
NewStateIndexOfMultiple ==
    (e_ret # Fresh /\ e_entry # None /\ e_classes > 0
        /\ e_entry.newState % (2 * e_classes) = 0) =>
        e_ret = Some(e_entry.newState \div (2 * e_classes))

(***************************************************************************)
(* morx.rs: the loop that reads the rows of the state array                *)
(***************************************************************************)

MaxStateRegion == 8   \* longest region of a state array, in bytes
MaxStateClasses == 3  \* largest nClasses
MaxStateRows == 5     \* rows after which the loop is no longer followed

\* state_stream.read_array::<u16>(nClasses): Some when count * 2 bytes are
\* left in the region, with the cursor after them
state_read_array(region, offset, count) ==
    IF offset + count * U16Size <= region
    THEN [some |-> TRUE, offset |-> offset + count * U16Size]
    ELSE [some |-> FALSE, offset |-> offset]

RowsInit ==
    /\ w_kind \in {"Rearrangement", "Contextual"}
    /\ w_region \in 0..MaxStateRegion
    /\ w_classes \in 0..MaxStateClasses
    /\ w_offset = 0
    /\ w_rows = 0
    /\ w_ret = Fresh

RowsIdle ==
    /\ w_kind = "idle"
    /\ w_region = 0
    /\ w_classes = 0
    /\ w_offset = 0
    /\ w_rows = 0
    /\ w_ret = None

\* a turn of the loop that pushes a row
StateRowPush ==
    /\ w_ret = Fresh
    /\ w_rows < MaxStateRows
    /\ LET r == state_read_array(w_region, w_offset, w_classes)
       IN  /\ r.some
           /\ w_offset' = r.offset
           /\ w_rows' = w_rows + 1
    /\ UNCHANGED <<w_kind, w_region, w_classes, w_ret, rowsOthers>>

\* the turn that breaks, and assert!(state_array.len() >= 2) after the loop
StateRowBreak ==
    /\ w_ret = Fresh
    /\ LET r == state_read_array(w_region, w_offset, w_classes)
       IN  /\ ~r.some
           /\ w_ret' = IF w_rows >= 2 THEN Some("Left") ELSE Panic
    /\ UNCHANGED <<w_kind, w_region, w_classes, w_offset, w_rows, rowsOthers>>

RowsNext == StateRowPush \/ StateRowBreak

\* C24: the loop over the state rows terminates for every payload, nClasses = 0
\* included: every row pushed moves the cursor of the state region forward,
\* so that no more than floor(region size / (2 * nClasses)) rows are read
StateLoopTerminates ==
    [][(w_rows' > w_rows) =>
           /\ w_offset' > w_offset
           /\ w_classes > 0
           /\ w_rows' <= w_region \div (2 * w_classes)]_vars

\* the bound on the rows when nClasses is not 0
StateRowsBounded ==
    (w_kind # "idle" /\ w_classes > 0) => w_rows <= w_region \div (2 * w_classes)

\* with nClasses = 0 the loop has pushed a row for every turn followed
StateLoopUnbounded ==
    /\ w_classes = 0
    /\ w_rows = MaxStateRows
    /\ w_offset = 0
    /\ w_ret = Fresh

(***************************************************************************)
(* morx.rs: the parsers of the five subtable payloads and of the lookup    *)
(* tables                                                                  *)
(***************************************************************************)

\* a loop that never ends
Diverges == [tag |-> "Diverges"]

IsFailure(r) == r = None \/ r = Panic \/ r = Diverges

\* stream.read::<u16>() with the cursor at offset: the value, or None
u16_at(data, offset) == read("u16", data, offset).ret

\* stream.read::<u32>() with the cursor at offset, taken `as usize`
u32_at(data, offset) ==
    LET r == read("u32", data, offset).ret
    IN  IF r = None THEN None ELSE Some(as_usize(r.val))

\* for _ in 0..count { values.push(stream.read::<u16>()?) } from offset
read_u16s(data, offset, count) ==
    IF offset + count * U16Size > Len(data) THEN None
    ELSE Some([k \in 1..count |-> u16_at(data, offset + (k - 1) * U16Size).val])

\* STXHeader::SIZE, BinSrchHeader::SIZE, Format4LookupSegment::SIZE (and
\* Format2LookupSegment::SIZE), Format6LookupSingle::SIZE, RearrangementEntry::SIZE
STXHeaderSize == 4 * 4
BinSrchHeaderSize == 2 * 5
LookupSegmentSize == 2 * 3
LookupSingleSize == 2 * 2
RearrangementEntrySize == 2 * 2

\* stream.read::<STXHeader>() with the cursor at offset
STXHeader_parse(data, offset) ==
    IF offset + STXHeaderSize > Len(data) THEN None
    ELSE Some([nClasses |-> u32_at(data, offset).val,
               classTableOffset |-> u32_at(data, offset + 4).val,
               stateArrayOffset |-> u32_at(data, offset + 8).val,
               entryTableOffset |-> u32_at(data, offset + 12).val])

\* stream.read::<BinSrchHeader>() with the cursor at offset
BinSrchHeader_parse(data, offset) ==
    LET w == read_u16s(data, offset, 5)
    IN  IF w = None THEN None
        ELSE Some([unitSize |-> w.val[1], nUnits |-> w.val[2], searchRange |-> w.val[3],
                   entrySelector |-> w.val[4], rangeShift |-> w.val[5]])

\* for _ in 0..nUnits { segments.push(stream.read()?) } for the segments of
\* formats 2 and 4: (lastGlyph, firstGlyph, value)
read_segments(data, offset, nUnits) ==
    IF offset + nUnits * LookupSegmentSize > Len(data) THEN None
    ELSE Some([i \in 1..nUnits |->
                  LET at == offset + (i - 1) * LookupSegmentSize
                  IN  [lastGlyph |-> u16_at(data, at).val,
                       firstGlyph |-> u16_at(data, at + 2).val,
                       value |-> u16_at(data, at + 4).val]])

\* the same for the entries of format 6: (glyph, value)
read_singles(data, offset, nUnits) ==
    IF offset + nUnits * LookupSingleSize > Len(data) THEN None
    ELSE Some([i \in 1..nUnits |->
                  LET at == offset + (i - 1) * LookupSingleSize
                  IN  [glyph |-> u16_at(data, at).val,
                       value |-> u16_at(data, at + 2).val]])

\* Stream::read_all_array::<u16>: the elements from the cursor to the end of
\* the stream
read_all_array(data, offset) ==
    IF offset > Len(data) THEN None
    ELSE read_u16s(data, offset, (Len(data) - offset) \div U16Size)

\* SimpleArray::parse with the cursor at offset
SimpleArray_parse(data, offset) ==
    LET lookup_values == read_all_array(data, offset)
    IN  IF lookup_values = None THEN None
        ELSE Some([format |-> 0, lookup_values |-> lookup_values.val])

\* SegmentSingle::parse with the cursor at offset
SegmentSingle_parse(data, offset) ==
    LET binSrchHeader == BinSrchHeader_parse(data, offset)
    IN  IF binSrchHeader = None THEN None
        ELSE IF binSrchHeader.val.unitSize # 6 THEN Panic
        ELSE LET segments == read_segments(data, offset + BinSrchHeaderSize,
                                           binSrchHeader.val.nUnits)
             IN  IF segments = None THEN None
                 ELSE Some([format |-> 2, binSrchHeader |-> binSrchHeader.val,
                            segments |-> segments.val])

\* SegmentArray::parse with the cursor at offset, where it finds the stream
\* after the format field has been read: start is that cursor
SegmentArray_parse(data, offset) ==
    LET start == offset
        binSrchHeader == BinSrchHeader_parse(data, offset)
    IN  IF binSrchHeader = None THEN None
        ELSE IF binSrchHeader.val.unitSize # LookupSegmentSize THEN Panic
        ELSE LET segments == read_segments(data, offset + BinSrchHeaderSize,
                                           binSrchHeader.val.nUnits)
             IN  IF segments = None THEN None
                 ELSE LET values == [i \in 1..Len(segments.val) |->
                                        u16_at(data, start + segments.val[i].value)]
                      IN  IF \E i \in 1..Len(values) : values[i] = None THEN None
                          ELSE Some([format |-> 4, binSrchHeader |-> binSrchHeader.val,
                                     segments |-> segments.val,
                                     lookup_values |-> [i \in 1..Len(values) |-> values[i].val]])

\* SingleTable::parse with the cursor at offset
SingleTable_parse(data, offset) ==
    LET binSrchHeader == BinSrchHeader_parse(data, offset)
    IN  IF binSrchHeader = None THEN None
        ELSE IF binSrchHeader.val.unitSize # 4 THEN Panic
        ELSE LET entries == read_singles(data, offset + BinSrchHeaderSize,
                                         binSrchHeader.val.nUnits)
             IN  IF entries = None THEN None
                 ELSE Some([format |-> 6, binSrchHeader |-> binSrchHeader.val,
                            entries |-> entries.val])

\* TrimmedArray::parse with the cursor at offset
TrimmedArray_parse(data, offset) ==
    LET firstGlyph == u16_at(data, offset)
        glyphCount == u16_at(data, offset + 2)
    IN  IF firstGlyph = None \/ glyphCount = None THEN None
        ELSE LET valueArray == read_u16s(data, offset + 4, glyphCount.val)
             IN  IF valueArray = None THEN None
                 ELSE Some([format |-> 8, firstGlyph |-> firstGlyph.val,
                            glyphCount |-> glyphCount.val, valueArray |-> valueArray.val])

\* ExtendedTrimmedArray::parse with the cursor at offset
ExtendedTrimmedArray_parse(data, offset) ==
    LET unitSize == u16_at(data, offset)
        firstGlyph == u16_at(data, offset + 2)
        glyphCount == u16_at(data, offset + 4)
    IN  IF unitSize = None THEN None
        ELSE IF unitSize.val # 2 THEN Panic
        ELSE IF firstGlyph = None \/ glyphCount = None THEN None
        ELSE LET valueArray == read_u16s(data, offset + 6, glyphCount.val)
             IN  IF valueArray = None THEN None
                 ELSE Some([format |-> 10, unitSize |-> unitSize.val,
                            firstGlyph |-> firstGlyph.val,
                            glyphCount |-> glyphCount.val, valueArray |-> valueArray.val])

\* LookupTable::parse on a stream over data with the cursor at offset
LookupTable_parse(data, offset) ==
    LET format == u16_at(data, offset)
        body == offset + U16Size
    IN  IF format = None THEN None
        ELSE CASE format.val = 0 -> SimpleArray_parse(data, body)
               [] format.val = 2 -> SegmentSingle_parse(data, body)
               [] format.val = 4 -> SegmentArray_parse(data, body)
               [] format.val = 6 -> SingleTable_parse(data, body)
               [] format.val = 8 -> TrimmedArray_parse(data, body)
               [] format.val = 10 -> ExtendedTrimmedArray_parse(data, body)
               [] OTHER -> Panic

\* data.get(start..end), known to exist
region_bytes(data, start, end) == SubSeq(data, start + 1, end)

\* the loop over the rows of the state array, run to its end: with
\* nClasses = 0 read_array never fails and the loop never ends
state_array_read(region, nClasses) ==
    IF nClasses = 0 THEN Diverges
    ELSE Some([s \in 1..(Len(region) \div (nClasses * U16Size)) |->
                  read_u16s(region, (s - 1) * nClasses * U16Size, nClasses).val])

\* flags & RearrangementEntry::RESERVED (0x1FF0)
entry_reserved(flags) == (flags \div 16) % 512

\* entry_stream.read_all_array::<RearrangementEntry>(): the entries from the
\* start of the region to its end, each parsed with its assertion
entry_table_read(region) ==
    LET entries == [i \in 1..(Len(region) \div RearrangementEntrySize) |->
                       [newState |-> u16_at(region, (i - 1) * RearrangementEntrySize).val,
                        flags |-> u16_at(region, (i - 1) * RearrangementEntrySize + 2).val]]
    IN  IF \E i \in 1..Len(entries) : entry_reserved(entries[i].flags) # 0 THEN Panic
        ELSE Some(entries)

\* offsets[ranks[k] + 1] for each region but the last entry of offsets
region_ends(offsets) ==
    LET ranks == make_rank(offsets)
    IN  [k \in 1..(Len(offsets) - 1) |-> region_end(offsets, ranks, k - 1)]

\* the end of either parse, once the loop over the state rows has ended:
\* assert!(state_array.len() >= 2), then for Rearrangement the entry table
state_table_result(data, stx_header, more, class_table, state_array, starts, ends, entries) ==
    IF state_array = Diverges THEN Diverges
    ELSE IF Len(state_array.val) < 2 THEN Panic
    ELSE IF ~entries
    THEN Some([stx_header |-> stx_header, substitution_table_offset |-> more,
               class_table |-> class_table, state_array |-> state_array.val])
    ELSE IF ~region_get(starts[3], ends[3].val, Len(data)) THEN None
    ELSE LET entry_table == entry_table_read(region_bytes(data, starts[3], ends[3].val))
         IN  IF IsFailure(entry_table) THEN entry_table
             ELSE Some([stx_header |-> stx_header, class_table |-> class_table,
                        state_array |-> state_array.val,
                        entry_table |-> entry_table.val])

\* what follows once the class table has been parsed: the state array's
\* region and the loop over its rows
state_table_rows(data, stx_header, more, class_table, starts, ends, entries) ==
    IF IsFailure(class_table) THEN class_table
    ELSE IF ~region_get(starts[2], ends[2].val, Len(data)) THEN None
    ELSE state_table_result(data, stx_header, more, class_table.val,
             state_array_read(region_bytes(data, starts[2], ends[2].val),
                              stx_header.nClasses),
             starts, ends, entries)

\* what follows once the ends of the regions are known: the class table's
\* region and the class table
state_table_regions(data, stx_header, more, starts, ends, entries) ==
    IF \E k \in 1..Len(ends) : ends[k] = Panic THEN Panic
    ELSE IF ~region_get(starts[1], ends[1].val, Len(data)) THEN None
    ELSE state_table_rows(data, stx_header, more,
             LookupTable_parse(region_bytes(data, starts[1], ends[1].val), 0),
             starts, ends, entries)

\* what follows once the STXHeader has been read
Rearrangement_tables(data, stx_header) ==
    IF stx_header = None THEN None
    ELSE LET class_start == stx_header.val.classTableOffset
             state_start == stx_header.val.stateArrayOffset
             entry_start == stx_header.val.entryTableOffset
             end == Len(data)
             offsets == <<class_start, state_start, entry_start, end>>
         IN  state_table_regions(data, stx_header.val, 0, offsets,
                                 region_ends(offsets), TRUE)

\* MorxSubtableRearrangement::parse
Rearrangement_parse(data) == Rearrangement_tables(data, STXHeader_parse(data, 0))

\* what follows once the STXHeader and substitution_table_offset have been read
Contextual_tables(data, stx_header, substitution_table_offset) ==
    IF stx_header = None \/ substitution_table_offset = None THEN None
    ELSE LET class_start == stx_header.val.classTableOffset
             state_start == stx_header.val.stateArrayOffset
             entry_start == stx_header.val.entryTableOffset
             substitution_start == substitution_table_offset.val
             end == Len(data)
             offsets == <<class_start, state_start, entry_start, substitution_start, end>>
         IN  state_table_regions(data, stx_header.val, substitution_table_offset.val,
                                 offsets, region_ends(offsets), FALSE)

\* MorxSubtableContextual::parse
Contextual_parse(data) ==
    Contextual_tables(data, STXHeader_parse(data, 0), u32_at(data, STXHeaderSize))

\* MorxSubtableLigature::parse: s.set_offset(MorxSubtableHeader::SIZE) first
Ligature_parse(data) ==
    LET at == MorxSubtableHeaderSize
        stx_header == STXHeader_parse(data, at)
        ligature_action_table_offset == u32_at(data, at + STXHeaderSize)
        component_table_offset == u32_at(data, at + STXHeaderSize + 4)
        ligature_list_offset == u32_at(data, at + STXHeaderSize + 8)
    IN  IF stx_header = None \/ ligature_action_table_offset = None
           \/ component_table_offset = None \/ ligature_list_offset = None THEN None
        ELSE Some([stx_header |-> stx_header.val,
                   ligature_action_table_offset |-> ligature_action_table_offset.val,
                   component_table_offset |-> component_table_offset.val,
                   ligature_list_offset |-> ligature_list_offset.val])

\* MorxSubtableNoncontextual::parse: s.set_offset(MorxSubtableHeader::SIZE) first
Noncontextual_parse(data) ==
    LET lookup_table == LookupTable_parse(data, MorxSubtableHeaderSize)
    IN  IF IsFailure(lookup_table) THEN lookup_table
        ELSE Some([lookup_table |-> lookup_table.val])

\* MorxSubtableInsertion::parse: s.set_offset(MorxSubtableHeader::SIZE) first
Insertion_parse(data) ==
    LET at == MorxSubtableHeaderSize
        stx_header == STXHeader_parse(data, at)
        insertion_action_table_offset == u32_at(data, at + STXHeaderSize)
    IN  IF stx_header = None \/ insertion_action_table_offset = None THEN None
        ELSE Some([stx_header |-> stx_header.val,
                   insertion_action_table_offset |-> insertion_action_table_offset.val])

MaxEntries == 2       \* most entries of an entry table

\* the bytes of a u16 and of a u32 below 65536, of a BinSrchHeader, and zeros
W16(v) == U16ToBe(v)
W32(v) == <<0, 0>> \o U16ToBe(v)
BinSrchBytes(unitSize, nUnits) ==
    W16(unitSize) \o W16(nUnits) \o W16(0) \o W16(0) \o W16(0)
Zeros(n) == [i \in 1..n |-> 0]

\* class tables: a trimmed array of one glyph, and a segment array of one
\* segment whose value SegmentArray::parse finds in the table
ClassTables ==
    {W16(8) \o W16(0) \o W16(1) \o W16(0),
     W16(4) \o BinSrchBytes(6, 1) \o W16(1) \o W16(1) \o W16(16) \o W16(0)}

\* the entry indices a state array holds
EntryIndexVals == {0, 1, 2}

\* a Rearrangement payload of one class: the header, then the class table,
\* the state array and the entry table in this order
RearrangementPayload(class_table, state, entries) ==
    LET c == STXHeaderSize
        s == c + Len(class_table)
        e == s + Len(state) * U16Size
    IN  W32(1) \o W32(c) \o W32(s) \o W32(e) \o class_table
            \o U16ArrayToBe(state) \o Zeros(entries * RearrangementEntrySize)

\* a Contextual payload of one class, with one entry and one substitution word
ContextualPayload(class_table, state) ==
    LET c == STXHeaderSize + 4
        s == c + Len(class_table)
        e == s + Len(state) * U16Size
        u == e + 8
    IN  W32(1) \o W32(c) \o W32(s) \o W32(e) \o W32(u) \o class_table
            \o U16ArrayToBe(state) \o Zeros(8) \o W16(0)

\* len bytes made of 4-byte words, the k-th word being seed + k
WordPayload(seed, len) == [i \in 1..len |-> IF i % 4 = 0 THEN seed + i \div 4 ELSE 0]

WordLens == {0, 16, 27, 28, 32, 39, 40, 44}

\* lookup tables of format 4: no segment, or one segment (last, 1, valuesOffset)
\* followed by the values
Format4Tables ==
    {W16(4) \o BinSrchBytes(6, 0)}
    \cup {W16(4) \o BinSrchBytes(us, 1) \o W16(last) \o W16(1) \o W16(vo) \o U16ArrayToBe(vals) :
             us \in {4, 6}, last \in {1, 2}, vo \in {16, 18, 20},
             vals \in {<<11>>, <<11, 12>>, <<11, 12, 13>>}}

\* lookup tables of the other formats, of no format, and cut short
ShortTables ==
    {W16(0) \o W16(5) \o W16(6),
     W16(8) \o W16(1) \o W16(2) \o W16(5) \o W16(6),
     W16(10) \o W16(2) \o W16(1) \o W16(1) \o W16(7)}

OtherTables ==
    ShortTables
    \cup {<<>>, <<0>>, W16(1), W16(10) \o W16(4),
          W16(2) \o BinSrchBytes(6, 1) \o W16(3) \o W16(1) \o W16(9),
          W16(6) \o BinSrchBytes(4, 1) \o W16(1) \o W16(9)}

\* Noncontextual payloads: a lookup table, zeros up to 12 bytes, and either
\* nothing or the bytes of another table
NoncontextualPayloads ==
    {t \o Zeros(MorxSubtableHeaderSize - Len(t)) \o t2 :
         t \in ShortTables, t2 \in ShortTables \cup {<<>>}}

PayloadInputs ==
    {RearrangementPayload(t, st, n) :
         t \in ClassTables, st \in [1..2 -> EntryIndexVals], n \in 1..MaxEntries}
    \cup {ContextualPayload(t, st) : t \in ClassTables, st \in [1..2 -> {0, 1}]}
    \cup {WordPayload(seed, len) : seed \in {0, 100}, len \in WordLens}
    \cup Format4Tables \cup OtherTables \cup NoncontextualPayloads

StateTableKinds == {"Rearrangement", "Contextual", "Ligature", "Insertion"}

PayloadInit ==
    /\ p_kind \in StateTableKinds \cup {"Noncontextual", "LookupTable"}
    /\ p_data \in PayloadInputs
    /\ p_ret = Fresh

PayloadIdle ==
    /\ p_kind = "idle"
    /\ p_data = <<>>
    /\ p_ret = None

\* MorxSubtableRearrangement::parse(header, data)
ParseRearrangement ==
    /\ p_kind = "Rearrangement"
    /\ p_ret = Fresh
    /\ p_ret' = Rearrangement_parse(p_data)
    /\ UNCHANGED <<p_kind, p_data, payloadOthers>>

\* MorxSubtableContextual::parse(header, data)
ParseContextual ==
    /\ p_kind = "Contextual"
    /\ p_ret = Fresh
    /\ p_ret' = Contextual_parse(p_data)
    /\ UNCHANGED <<p_kind, p_data, payloadOthers>>

\* MorxSubtableLigature::parse(header, data)
ParseLigature ==
    /\ p_kind = "Ligature"
    /\ p_ret = Fresh
    /\ p_ret' = Ligature_parse(p_data)
    /\ UNCHANGED <<p_kind, p_data, payloadOthers>>

\* MorxSubtableNoncontextual::parse(header, data)
ParseNoncontextual ==
    /\ p_kind = "Noncontextual"
    /\ p_ret = Fresh
    /\ p_ret' = Noncontextual_parse(p_data)
    /\ UNCHANGED <<p_kind, p_data, payloadOthers>>

\* MorxSubtableInsertion::parse(header, data)
ParseInsertion ==
    /\ p_kind = "Insertion"
    /\ p_ret = Fresh
    /\ p_ret' = Insertion_parse(p_data)
    /\ UNCHANGED <<p_kind, p_data, payloadOthers>>

\* LookupTable::parse(&mut Stream::new(data))
ParseLookupTable ==
    /\ p_kind = "LookupTable"
    /\ p_ret = Fresh
    /\ p_ret' = LookupTable_parse(p_data, 0)
    /\ UNCHANGED <<p_kind, p_data, payloadOthers>>

PayloadNext ==
    \/ ParseRearrangement
    \/ ParseContextual
    \/ ParseLigature
    \/ ParseNoncontextual
    \/ ParseInsertion
    \/ ParseLookupTable

\* the big-endian number of four bytes
BeNat(b) == ((b[1] * 256 + b[2]) * 256 + b[3]) * 256 + b[4]

\* the four fields of an STXHeader held by the first 16 bytes
StxOfFirstBytes(data) ==
    [nClasses |-> BeNat(SubSeq(data, 1, 4)),
     classTableOffset |-> BeNat(SubSeq(data, 5, 8)),
     stateArrayOffset |-> BeNat(SubSeq(data, 9, 12)),
     entryTableOffset |-> BeNat(SubSeq(data, 13, 16))]

\* C25: the STXHeader of a Rearrangement, Contextual, Ligature or Insertion
\* subtable is decoded from the first 16 bytes of the payload, and the format
\* of a Noncontextual subtable's lookup table from its first 2 bytes
StxAtPayloadStart ==
    p_ret.tag = "Some" =>
        /\ p_kind \in StateTableKinds =>
               /\ Len(p_data) >= STXHeaderSize
               /\ p_ret.val.stx_header = StxOfFirstBytes(p_data)
        /\ p_kind = "Noncontextual" =>
               /\ Len(p_data) >= U16Size
               /\ p_ret.val.lookup_table.format = p_data[1] * 256 + p_data[2]

\* the part of it that concerns Rearrangement and Contextual
StxAtPayloadStartOfTwo ==
    (p_kind \in {"Rearrangement", "Contextual"}) => StxAtPayloadStart

\* the values a parsed segment array holds for its i-th segment
segment_values(table, i) == <<table.lookup_values[i]>>

\* C26: a segment (lastGlyph, firstGlyph, valuesOffset) of a format 4 lookup
\* table yields lastGlyph - firstGlyph + 1 values, the 16-bit entries at
\* valuesOffset from the start of the lookup table, where its format field is
SegmentValuesFromTableStart ==
    (p_kind = "LookupTable" /\ p_ret.tag = "Some" /\ p_ret.val.format = 4) =>
        \A i \in 1..Len(p_ret.val.segments) :
            LET segment == p_ret.val.segments[i]
                count == segment.lastGlyph - segment.firstGlyph + 1
            IN  /\ segment.value + count * U16Size <= Len(p_data)
                /\ segment_values(p_ret.val, i) =
                       U16Array(SubSeq(p_data, segment.value + 1,
                                       segment.value + count * U16Size))

\* C27: every entry index in the state array of a parsed Rearrangement
\* subtable is smaller than the length of its entry table
EntryIndicesInTable ==
    (p_kind = "Rearrangement" /\ p_ret.tag = "Some") =>
        \A s \in 1..Len(p_ret.val.state_array) :
            \A c \in 1..Len(p_ret.val.state_array[s]) :
                p_ret.val.state_array[s][c] < Len(p_ret.val.entry_table)

(***************************************************************************)
(* table.rs: TTCHeader and Collection                                      *)
(***************************************************************************)

MaxFonts == 2         \* most fonts of a generated collection

\* the bytes TTCHeader::parse reads before tableDirectoryOffsets
TTCHeaderSize == 4 + 2 + 2 + 4

\* TTCHeader::parse
TTCHeader_parse(data) ==
    LET ttc_tag == read("u32", data, 0)
        major_version == read("u16", data, ttc_tag.offset)
        minor_version == read("u16", data, major_version.offset)
        num_fonts == read("u32", data, minor_version.offset)
    IN  IF ttc_tag.ret = None \/ major_version.ret = None \/ minor_version.ret = None
           \/ num_fonts.ret = None THEN None
        ELSE LET bytes == read_array("u32", data, num_fonts.offset, as_usize(num_fonts.ret.val))
             IN  IF bytes.ret = None THEN None
                 ELSE Some([ttcTag |-> ttc_tag.ret.val,
                            numFonts |-> num_fonts.ret.val,
                            tableDirectoryOffsets |->
                                [k \in 1..as_usize(num_fonts.ret.val) |->
                                    U32FromBe(SubSeq(bytes.ret.val, 4 * k - 3, 4 * k))]])

\* Collection::new
Collection_new(data) == TTCHeader_parse(data)

\* Collection::get with the Table keeping the directory's bytes as its data
Collection_get_from_directory(data, header, index) ==
    IF ~(index < Len(header.tableDirectoryOffsets)) THEN None
    ELSE LET offset == header.tableDirectoryOffsets[index + 1]
         IN  IF WideCmp(offset, <<0, Len(data)>>) = "Greater" THEN None
             ELSE LET table_record_data == SubSeq(data, offset[2] + 1, Len(data))
                      table_directory == TableDirectory_parse(table_record_data)
                  IN  IF table_directory.tag # "Some" THEN table_directory
                      ELSE Some([data |-> table_record_data,
                                 table_directory |-> table_directory.val])

\* Collection::get: Some(Table), None, or Panic from check_sfnt_version
Collection_get(data, header, index) ==
    IF ~(index < Len(header.tableDirectoryOffsets)) THEN None
    ELSE LET offset == header.tableDirectoryOffsets[index + 1]
         IN  IF WideCmp(offset, <<0, Len(data)>>) = "Greater" THEN None
             ELSE LET table_record_data == SubSeq(data, offset[2] + 1, Len(data))
                      table_directory == TableDirectory_parse(table_record_data)
                  IN  IF table_directory.tag # "Some" THEN table_directory
                      ELSE Some([data |-> data, table_directory |-> table_directory.val])

\* 'ttcf'
COLLECTION == <<29812, 25446>>

\* where the generated directory lies in a collection of n fonts
DirectoryAt(n) == TTCHeaderSize + 4 * n

\* the places an entry of tableDirectoryOffsets points to: the directory,
\* two bytes into it, the end of the file, one byte past it, 0xFFFFFFFE
FontPlaces == {"directory", "inside", "end", "past", "huge"}

\* the places a table record points to: the start of the file, the start of
\* the directory, the four bytes after the directory, 0xFFFFFFFE
TablePlaces == {"file", "directory", "payload", "huge"}

CollectionRecords ==
    [tag : {<<0, 1>>}, place : TablePlaces, length : {<<0, 2>>, <<0, 5>>, <<65535, 65535>>}]

\* the directory of a font with these records, the collection having n fonts
DirectoryBytes(recs, n) ==
    U32ToBe(TRUETYPE) \o U16ToBe(Len(recs)) \o <<0, 0, 0, 0, 0, 0>>
    \o (IF Len(recs) = 0 THEN <<>>
        ELSE U32ToBe(recs[1].tag) \o <<0, 0, 0, 0>>
             \o U32ToBe(CASE recs[1].place = "file" -> <<0, 0>>
                          [] recs[1].place = "directory" -> <<0, DirectoryAt(n)>>
                          [] recs[1].place = "payload" ->
                                 <<0, DirectoryAt(n) + DirectoryHeaderSize + TableRecordSize>>
                          [] recs[1].place = "huge" -> <<65535, 65534>>)
             \o U32ToBe(recs[1].length))
    \o Payload

\* the length of the collection file with this directory
CollectionLen(recs, n) ==
    DirectoryAt(n) + DirectoryHeaderSize + TableRecordSize * Len(recs) + Len(Payload)

FontOffset(place, recs, n) ==
    CASE place = "directory" -> <<0, DirectoryAt(n)>>
      [] place = "inside" -> <<0, DirectoryAt(n) + 2>>
      [] place = "end" -> <<0, CollectionLen(recs, n)>>
      [] place = "past" -> <<0, CollectionLen(recs, n) + 1>>
      [] place = "huge" -> <<65535, 65534>>

\* a collection file: the TTC header claiming numFonts fonts, the offsets of
\* the fonts, and one directory with its four bytes of table data
CollectionBytes(numFonts, places, recs) ==
    U32ToBe(COLLECTION) \o <<0, 1, 0, 0>> \o U32ToBe(<<0, numFonts>>)
    \o (IF Len(places) = 0 THEN <<>>
        ELSE U32ToBe(FontOffset(places[1], recs, Len(places)))
             \o (IF Len(places) = 1 THEN <<>>
                 ELSE U32ToBe(FontOffset(places[2], recs, Len(places)))))
    \o DirectoryBytes(recs, Len(places))

\* collections of 0..MaxFonts fonts; one whose numFonts claims more offsets
\* than the file holds; a file that ends inside the TTC header
CollectionInputs ==
    {CollectionBytes(Len(places), places, recs) :
         places \in SeqsUpTo(FontPlaces, 2), recs \in SeqsUpTo(CollectionRecords, 1)}
    \cup {CollectionBytes(40, <<>>, <<>>), <<116, 116, 99, 102, 0, 1>>}

CollectionInit ==
    /\ o_file \in CollectionInputs
    /\ o_collection = Collection_new(o_file)
    /\ o_usize_bits \in {32, 64}
    /\ o_index = 0
    /\ o_table = Fresh
    /\ o_call = Fresh

CollectionIdle ==
    /\ o_file = <<>>
    /\ o_collection = None
    /\ o_usize_bits = 64
    /\ o_index = 0
    /\ o_table = Fresh
    /\ o_call = Fresh

\* Collection::get(index)
CollectionGet ==
    /\ o_collection.tag = "Some"
    /\ o_table = Fresh
    /\ \E index \in 0..MaxFonts :
           /\ o_index' = index
           /\ o_table' = Collection_get(o_file, o_collection.val, index)
    /\ UNCHANGED <<o_file, o_collection, o_usize_bits, o_call, collectionOthers>>

\* Table::get_table_data(tag) on the Table that get returned
CollectionGetTableData ==
    /\ o_table.tag = "Some"
    /\ \E tag \in {<<0, 1>>, <<0, 3>>} :
       \E index \in binary_search_by_tag(o_table.val.table_directory.tableRecords, tag) :
           o_call' = [tag |-> tag, index |-> index,
                      ret |-> get_table_data(o_table.val.data,
                                  get_table_record(o_table.val.table_directory, index),
                                  o_usize_bits)]
    /\ UNCHANGED <<o_file, o_collection, o_usize_bits, o_index, o_table, collectionOthers>>

CollectionNext ==
    \/ CollectionGet
    \/ CollectionGetTableData

\* offset + length <= the length of the whole file
RecordInCollection(r) ==
    /\ r.offset[1] = 0
    /\ r.length[1] = 0
    /\ r.offset[2] + r.length[2] <= Len(o_file)

\* tableDirectoryOffsets[o_index] lies past the end of the file
FontPastEnd ==
    WideCmp(o_collection.val.tableDirectoryOffsets[o_index + 1], <<0, Len(o_file)>>) = "Greater"

\* C30: Collection::get(i) is None when i >= numFonts or offsets[i] lies
\* past the end of the file; the directory of the Table it returns is the one
\* at tableDirectoryOffsets[i], and get_table_data on that Table resolves a
\* record against the beginning of the collection file: a record inside the
\* file gives file[offset, offset + length), whatever the directory's position
CollectionResolvesAgainstFile ==
    /\ o_table # Fresh =>
           /\ (o_index >= as_usize(o_collection.val.numFonts) \/ FontPastEnd)
                  => o_table = None
           /\ o_table.tag = "Some" =>
                  LET at == o_collection.val.tableDirectoryOffsets[o_index + 1][2]
                  IN  /\ o_table.val.table_directory.sfntVersion
                             = U32FromBe(SubSeq(o_file, at + 1, at + 4))
                      /\ o_table.val.table_directory.numTables
                             = U16FromBe(SubSeq(o_file, at + 5, at + 6))
    /\ o_call # Fresh =>
           LET records == o_table.val.table_directory.tableRecords
           IN  /\ o_call.ret # None => o_call.index # None
               /\ o_call.index # None =>
                      LET r == records[o_call.index.val + 1]
                      IN  o_call.ret = IF RecordInCollection(r)
                                       THEN Some([k \in 1..r.length[2] |->
                                                     o_file[r.offset[2] + k]])
                                       ELSE None

\* C30 happens: the directory lies after the TTC header and a record with
\* offset 0 gave the first two bytes of the collection file, 't' 't'
CollectionWitness ==
    /\ o_table # Fresh /\ o_table.tag = "Some"
    /\ o_collection.val.tableDirectoryOffsets[o_index + 1] = <<0, DirectoryAt(2)>>
    /\ o_call # Fresh
    /\ o_call.index # None
    /\ o_table.val.table_directory.tableRecords[o_call.index.val + 1].offset = <<0, 0>>
    /\ o_call.ret = Some(<<116, 116>>)

\* C30 happens too: get was called with an index that is not below numFonts,
\* and with an offset one byte past the end of the file
CollectionNoneWitness ==
    /\ o_table = None
    /\ o_index >= as_usize(o_collection.val.numFonts)

CollectionPastEndWitness ==
    /\ o_table = None
    /\ o_index < as_usize(o_collection.val.numFonts)
    /\ o_collection.val.tableDirectoryOffsets[o_index + 1] = <<0, Len(o_file) + 1>>

----------------------------------------------------------------------------
(* Specifications *)

InitStream == StreamInit /\ CmapIdle /\ LocaIdle /\ GlyfIdle /\ MorxIdle /\ CompositeIdle /\ SearchIdle /\ TableIdle /\ ChainIdle /\ Format4Idle /\ RankIdle /\ GsubIdle /\ IterIdle /\ EntryIdle /\ RowsIdle /\ PayloadIdle /\ CollectionIdle

NextStream == StreamNext

SpecStream == InitStream /\ [][NextStream]_vars

InitCmap == CmapInit /\ StreamIdle /\ LocaIdle /\ GlyfIdle /\ MorxIdle /\ CompositeIdle /\ SearchIdle /\ TableIdle /\ ChainIdle /\ Format4Idle /\ RankIdle /\ GsubIdle /\ IterIdle /\ EntryIdle /\ RowsIdle /\ PayloadIdle /\ CollectionIdle

NextCmap == CmapNext

SpecCmap == InitCmap /\ [][NextCmap]_vars

InitLoca == LocaInit /\ StreamIdle /\ CmapIdle /\ GlyfIdle /\ MorxIdle /\ CompositeIdle /\ SearchIdle /\ TableIdle /\ ChainIdle /\ Format4Idle /\ RankIdle /\ GsubIdle /\ IterIdle /\ EntryIdle /\ RowsIdle /\ PayloadIdle /\ CollectionIdle

NextLoca == LocaNext

SpecLoca == InitLoca /\ [][NextLoca]_vars

InitGlyf == GlyfInit /\ StreamIdle /\ CmapIdle /\ LocaIdle /\ MorxIdle /\ CompositeIdle /\ SearchIdle /\ TableIdle /\ ChainIdle /\ Format4Idle /\ RankIdle /\ GsubIdle /\ IterIdle /\ EntryIdle /\ RowsIdle /\ PayloadIdle /\ CollectionIdle

NextGlyf == GlyfNext

SpecGlyf == InitGlyf /\ [][NextGlyf]_vars

InitMorx == MorxInit /\ StreamIdle /\ CmapIdle /\ LocaIdle /\ GlyfIdle /\ CompositeIdle /\ SearchIdle /\ TableIdle /\ ChainIdle /\ Format4Idle /\ RankIdle /\ GsubIdle /\ IterIdle /\ EntryIdle /\ RowsIdle /\ PayloadIdle /\ CollectionIdle

NextMorx == MorxNext

SpecMorx == InitMorx /\ [][NextMorx]_vars

InitComposite == CompositeInit /\ StreamIdle /\ CmapIdle /\ LocaIdle /\ GlyfIdle /\ MorxIdle /\ SearchIdle /\ TableIdle /\ ChainIdle /\ Format4Idle /\ RankIdle /\ GsubIdle /\ IterIdle /\ EntryIdle /\ RowsIdle /\ PayloadIdle /\ CollectionIdle

NextComposite == CompositeNext

SpecComposite == InitComposite /\ [][NextComposite]_vars

InitSearch == SearchInit /\ StreamIdle /\ CmapIdle /\ LocaIdle /\ GlyfIdle /\ MorxIdle /\ CompositeIdle /\ TableIdle /\ ChainIdle /\ Format4Idle /\ RankIdle /\ GsubIdle /\ IterIdle /\ EntryIdle /\ RowsIdle /\ PayloadIdle /\ CollectionIdle

NextSearch == SearchNext

SpecSearch == InitSearch /\ [][NextSearch]_vars

InitTable == TableInit /\ StreamIdle /\ CmapIdle /\ LocaIdle /\ GlyfIdle /\ MorxIdle /\ CompositeIdle /\ SearchIdle /\ ChainIdle /\ Format4Idle /\ RankIdle /\ GsubIdle /\ IterIdle /\ EntryIdle /\ RowsIdle /\ PayloadIdle /\ CollectionIdle

NextTable == TableNext

SpecTable == InitTable /\ [][NextTable]_vars

\* lookup by tag in a LazyArray and in a table directory
InitLookup == InitSearch \/ InitTable

NextLookup == NextSearch \/ NextTable

SpecLookup == InitLookup /\ [][NextLookup]_vars

InitChain == ChainInit /\ StreamIdle /\ CmapIdle /\ LocaIdle /\ GlyfIdle /\ MorxIdle /\ CompositeIdle /\ SearchIdle /\ TableIdle /\ Format4Idle /\ RankIdle /\ GsubIdle /\ IterIdle /\ EntryIdle /\ RowsIdle /\ PayloadIdle /\ CollectionIdle

NextChain == ChainNext

SpecChain == InitChain /\ [][NextChain]_vars

InitFormat4 == Format4Init /\ StreamIdle /\ CmapIdle /\ LocaIdle /\ GlyfIdle /\ MorxIdle /\ CompositeIdle /\ SearchIdle /\ TableIdle /\ ChainIdle /\ RankIdle /\ GsubIdle /\ IterIdle /\ EntryIdle /\ RowsIdle /\ PayloadIdle /\ CollectionIdle

NextFormat4 == Format4Next

SpecFormat4 == InitFormat4 /\ [][NextFormat4]_vars

InitRank == RankInit /\ StreamIdle /\ CmapIdle /\ LocaIdle /\ GlyfIdle /\ MorxIdle /\ CompositeIdle /\ SearchIdle /\ TableIdle /\ ChainIdle /\ Format4Idle /\ GsubIdle /\ IterIdle /\ EntryIdle /\ RowsIdle /\ PayloadIdle /\ CollectionIdle

NextRank == RankNext

SpecRank == InitRank /\ [][NextRank]_vars

InitGsub == GsubInit /\ StreamIdle /\ CmapIdle /\ LocaIdle /\ GlyfIdle /\ MorxIdle /\ CompositeIdle /\ SearchIdle /\ TableIdle /\ ChainIdle /\ Format4Idle /\ RankIdle /\ IterIdle /\ EntryIdle /\ RowsIdle /\ PayloadIdle /\ CollectionIdle

NextGsub == GsubNext

SpecGsub == InitGsub /\ [][NextGsub]_vars

InitIter == IterInit /\ StreamIdle /\ CmapIdle /\ LocaIdle /\ GlyfIdle /\ MorxIdle /\ CompositeIdle /\ SearchIdle /\ TableIdle /\ ChainIdle /\ Format4Idle /\ RankIdle /\ GsubIdle /\ EntryIdle /\ RowsIdle /\ PayloadIdle /\ CollectionIdle

NextIter == IterNext

SpecIter == InitIter /\ [][NextIter]_vars

InitEntry == EntryInit /\ StreamIdle /\ CmapIdle /\ LocaIdle /\ GlyfIdle /\ MorxIdle /\ CompositeIdle /\ SearchIdle /\ TableIdle /\ ChainIdle /\ Format4Idle /\ RankIdle /\ GsubIdle /\ IterIdle /\ RowsIdle /\ PayloadIdle /\ CollectionIdle

NextEntry == EntryNext

SpecEntry == InitEntry /\ [][NextEntry]_vars

InitRows == RowsInit /\ StreamIdle /\ CmapIdle /\ LocaIdle /\ GlyfIdle /\ MorxIdle /\ CompositeIdle /\ SearchIdle /\ TableIdle /\ ChainIdle /\ Format4Idle /\ RankIdle /\ GsubIdle /\ IterIdle /\ EntryIdle /\ PayloadIdle /\ CollectionIdle

NextRows == RowsNext

SpecRows == InitRows /\ [][NextRows]_vars

InitPayload == PayloadInit /\ StreamIdle /\ CmapIdle /\ LocaIdle /\ GlyfIdle /\ MorxIdle /\ CompositeIdle /\ SearchIdle /\ TableIdle /\ ChainIdle /\ Format4Idle /\ RankIdle /\ GsubIdle /\ IterIdle /\ EntryIdle /\ RowsIdle /\ CollectionIdle

NextPayload == PayloadNext

SpecPayload == InitPayload /\ [][NextPayload]_vars

InitCollection == CollectionInit /\ StreamIdle /\ CmapIdle /\ LocaIdle /\ GlyfIdle /\ MorxIdle /\ CompositeIdle /\ SearchIdle /\ TableIdle /\ ChainIdle /\ Format4Idle /\ RankIdle /\ GsubIdle /\ IterIdle /\ EntryIdle /\ RowsIdle /\ PayloadIdle

NextCollection == CollectionNext

SpecCollection == InitCollection /\ [][NextCollection]_vars

Init == InitStream \/ InitCmap \/ InitLoca \/ InitGlyf \/ InitMorx \/ InitComposite \/ InitSearch \/ InitTable \/ InitChain \/ InitFormat4 \/ InitRank \/ InitGsub \/ InitIter \/ InitEntry \/ InitRows \/ InitPayload \/ InitCollection

Next == NextStream \/ NextCmap \/ NextLoca \/ NextGlyf \/ NextMorx \/ NextComposite \/ NextSearch \/ NextTable \/ NextChain \/ NextFormat4 \/ NextRank \/ NextGsub \/ NextIter \/ NextEntry \/ NextRows \/ NextPayload \/ NextCollection

Spec == Init /\ [][Next]_vars
====
